---------------------------- MODULE Spec2Model ----------------------------
(***************************************************************************)
(* A state-machine model of the pawdopt-server synchronisation core:       *)
(*   - the call governor        (api/utils/apiTracker.js)                  *)
(*   - the token manager        (getValidToken of the workers)             *)
(*   - the scan jobs            (discovery-worker.js, quick-scan.js)       *)
(*   - revalidation and pruning (refresh-worker.js, deep-refresh-worker.js,*)
(*                               janitor-worker.js)                        *)
(*   - the Cleanup job          (runCleanup of discovery-worker.js)        *)
(*   - the feed handler         (api/videos.js)                            *)
(* Each component has its own specification; the variables of the other    *)
(* components keep their initial values under it.                          *)
(***************************************************************************)
EXTENDS Integers, Sequences, FiniteSets, TLC

VARIABLES
    \* ---- call governor (redis keys petfinder_api_count:<date>) ----
    today,        \* index of the current UTC date
    apiCount,     \* [day -> value of the key petfinder_api_count:<day>], 0 = key absent
    apiTtl,       \* [day -> TRUE iff the key has an expiry set]
    gPc,          \* [caller -> position inside makeApiCallWithCount]
    dailyKey,     \* [caller -> the day its key was computed for (line 18-19)]
    currentCount, \* [caller -> the count it read (line 22)]
    newCount,     \* [caller -> the value its INCR returned (line 36)]
    gResult,      \* [caller -> outcome of its last invocation]
    executed,     \* [day -> number of wrapped request functions invoked that day]
    started,      \* number of invocations begun (bounds the run)
    \* ---- token manager (redis keys petfinder_token, petfinder_token_lock) ----
    token,        \* value of the key petfinder_token, 0 = absent
    tokLock,      \* 0 = the lock key is absent, else the caller whose SET NX created it
    variant,      \* [caller -> which worker's getValidToken it runs]
    tPc,          \* [caller -> position inside getValidToken]
    access_token, \* [caller -> the token its exchange returned, 0 = none]
    tResult,      \* [caller -> 0 = still running, -1 = it threw, else the token returned]
    exchanges,    \* number of credential exchanges sent to the provider
    cachedAtLock, \* [caller -> the value of petfinder_token when its SET NX succeeded]
    \* ---- clock, upstream listings provider, durable store ----
    now,          \* the wall clock, in ticks
    upAdded,      \* [animal id -> 0 = not listed upstream, else the time it was added]
    upRev,        \* [animal id -> revision of the listing's body upstream]
    hubDown,      \* hubs whose geocoding or search call currently fails
    orgDown,      \* organizations whose detail call currently fails
    rows,         \* table AnimalWithVideo: a set of rows
    orgs,         \* table Organization: the ids present
    lastScanTime, \* redis key worker:last_scan_time, 0 = absent
    \* ---- one Discovery or Quick-Scan run ----
    job,          \* "none", "discovery" or "quickscan"
    jPc,          \* position inside the run's hub loop
    jHub,         \* index of the hub being processed
    startTime,    \* the run's start time
    jAfter,       \* the lastScanTime the run read at its start
    jOrgs,        \* organization ids of the page still to fetch
    jAnimals,     \* video animals of the page still to save
    newAnimalsFoundInHub,
    runs,         \* number of runs started (bounds the model)
    \* ---- history of the scan runs ----
    qsUpserted,   \* ids a Quick-Scan run has upserted
    firstKind,    \* kind of the run that opened the current series of equal runs
    firstIds,     \* ids stored when the first run of the series ended
    repeated,     \* TRUE iff the run under way or just ended repeats the series' kind
    upChanged,    \* TRUE iff upstream changed since the series' first run started
    upEvents,     \* number of upstream changes so far (bounds the model)
    \* ---- one hourly refresh run (refresh-worker.js) ----
    rPc,            \* position inside runHourlyRefresh
    animalsToAudit, \* the batch selected, oldest lastSeenAt first
    results,        \* [animal id -> how its guarded detail call settled]
    animalData,     \* [animal id -> revision of the body its call returned, 0 = none]
    totalProcessed,
    attempt,        \* withRetry: number of attempts that have thrown
    refAt,          \* the hour mark at which cron last fired the job, 0 = never
    \* ---- one deep refresh run (deep-refresh-worker.js) ----
    dPc,            \* position inside runDeepRefresh
    dHub,           \* index of the hub of the broad phase
    atRiskAnimals,  \* the at-risk ids still to re-validate
    dOutcome,       \* how the detail call of the head of atRiskAnimals ended
    dBody,          \* revision of the body that call returned, 0 = none
    dStartTime,     \* the run's start time
    deepAt,         \* the hour mark at which cron last fired the run, 0 = never
    \* ---- janitor (janitor-worker.js) and history of pruning ----
    janitorAt,      \* time of the last Janitor run
    pruned,         \* ids a Janitor or prune step has deleted
    \* ---- one Cleanup run (runCleanup of discovery-worker.js) ----
    profile,        \* [record id -> columns name, type, breeds of AnimalWithVideo]
    cPc,            \* position inside runCleanup
    potentialDupes, \* the (name, type) groups still to examine
    preRows,        \* the table as it was when the run started
    \* ---- feed requests (api/videos.js) ----
    pos,            \* [record id -> columns latitude/longitude, a point of the meridian]
    origin,         \* the coordinates of the user's location
    seenVideoIds,   \* ids of the SeenVideo rows of the user
    geocoder,       \* "ok", "empty" (no results) or "fail" (the call throws)
    coordsCached,   \* TRUE iff redis holds coords:<location>
    sessionList,    \* [session id -> the id list stored under session:<id>]
    sessionSetAt,   \* [session id -> time of the SET ... EX, -1 = never set]
    nextSession,    \* the next fresh session id
    hyperLocalIds,  \* tier 1 of the latest assembly
    regionalIds,    \* tier 2 of the latest assembly
    nationwideIds,  \* tier 3 of the latest assembly
    resp,           \* the latest response, with the request it answers
    \* ---- table users and the requests that find or create the user's row ----
    userRows,       \* number of rows of table users carrying the client's UUID
    uKind,          \* [request -> "session" (api/videos.js) or "seen" (api/seen.js)]
    uPc,            \* [request -> position inside its handler]
    uStatus         \* [request -> status of its response, 0 = none yet]

govVars == <<today, apiCount, apiTtl, gPc, dailyKey, currentCount, newCount,
             gResult, executed, started>>

tokVars == <<token, tokLock, variant, tPc, access_token, tResult, exchanges,
            cachedAtLock>>

envVars == <<now, upAdded, upRev, hubDown, orgDown>>
dbVars == <<rows, orgs>>
scanVars == <<lastScanTime, job, jPc, jHub, startTime, jAfter, jOrgs, jAnimals,
              newAnimalsFoundInHub, runs, qsUpserted, firstKind, firstIds,
              repeated, upChanged, upEvents>>

refVars == <<rPc, animalsToAudit, results, animalData, totalProcessed, attempt,
             refAt>>
deepVars == <<dPc, dHub, atRiskAnimals, dOutcome, dBody, dStartTime, deepAt>>
janVars == <<janitorAt, pruned>>
cleanVars == <<profile, cPc, potentialDupes, preRows>>
feedVars == <<pos, origin, seenVideoIds, geocoder, coordsCached, sessionList,
              sessionSetAt, nextSession, hyperLocalIds, regionalIds, nationwideIds, resp>>
userVars == <<userRows, uKind, uPc, uStatus>>
appVars == <<cleanVars, feedVars, userVars>>

vars == <<govVars, tokVars, envVars, dbVars, scanVars, refVars, deepVars, janVars,
          appVars>>

\* What the actions of one component leave alone.
notGovVars == <<tokVars, envVars, dbVars, scanVars, refVars, deepVars, janVars,
                appVars>>
notTokVars == <<envVars, dbVars, scanVars, refVars, deepVars, janVars, appVars>>
notScanVars == <<tokVars, today, apiTtl, gPc, dailyKey, currentCount, newCount,
                 gResult, started, refVars, deepVars, janVars, appVars>>
notSweepVars == <<tokVars, today, apiTtl, gPc, dailyKey, currentCount, newCount,
                  gResult, started, hubDown, orgDown, job, jPc, jHub, startTime,
                  jAfter, jOrgs, jAnimals, newAnimalsFoundInHub, runs, qsUpserted,
                  firstKind, firstIds, repeated, appVars>>

-----------------------------------------------------------------------------
(* Bounds of the model *)
NumCallers == 2
MaxCalls == 2
MaxDay == 1
StartSlack == 1

NumAnimals == 2
NumHubs == 2
MaxRuns == 3
ScanMaxNow == 4
ScanSlack == 2
MaxUpEvents == 1

TicksPerHour == 3

(* Program constants *)
API_DAILY_LIMIT == 989
TARGET_PER_HUB == 5
REFRESH_THRESHOLD_HOURS == 23
BATCH_LIMIT == 20
HOURLY_API_BUDGET == 40
RETRIES == 3

AnimalIds == 1..NumAnimals
CITY_HUBS == 1..NumHubs
OrgIds == {1, 2}

Callers == 1..NumCallers
Days == 0..MaxDay

-----------------------------------------------------------------------------
(*                              CALL GOVERNOR                              *)

\* The counter values a day can start the model with: a fresh day, or a
\* day on which all but a few of the daily calls have been made and counted.
StartCounts == {0} \cup ((API_DAILY_LIMIT - StartSlack)..API_DAILY_LIMIT)

GovInit ==
    /\ today = 0
    /\ \E c0 \in StartCounts :
          /\ apiCount = [d \in Days |-> IF d = 0 THEN c0 ELSE 0]
          /\ apiTtl = [d \in Days |-> d = 0 /\ c0 > 0]
          /\ executed = [d \in Days |-> IF d = 0 THEN c0 ELSE 0]
    /\ gPc = [c \in Callers |-> "idle"]
    /\ dailyKey = [c \in Callers |-> 0]
    /\ currentCount = [c \in Callers |-> 0]
    /\ newCount = [c \in Callers |-> 0]
    /\ gResult = [c \in Callers |-> "none"]
    /\ started = 0

\* The circuit breaker's test (line 24); before it, the test with > for >=,
\* a faulty variant under which C2 must fail.
LimitReachedOffByOne(n) == n > API_DAILY_LIMIT
LimitReached(n) == n >= API_DAILY_LIMIT

\* makeApiCallWithCount is entered: the key of the current date is computed.
GovStart(c) ==
    /\ UNCHANGED notGovVars
    /\ gPc[c] = "idle"
    /\ started < MaxCalls
    /\ started' = started + 1
    /\ dailyKey' = [dailyKey EXCEPT ![c] = today]
    /\ gPc' = [gPc EXCEPT ![c] = "get"]
    /\ gResult' = [gResult EXCEPT ![c] = "none"]
    /\ UNCHANGED <<today, apiCount, apiTtl, currentCount, newCount, executed>>

\* redis.get answers; at or above the limit the call throws, otherwise the
\* wrapped request function is invoked (lines 22-33).
GovGet(c) ==
    /\ UNCHANGED notGovVars
    /\ gPc[c] = "get"
    /\ IF LimitReached(apiCount[dailyKey[c]])
       THEN /\ gPc' = [gPc EXCEPT ![c] = "idle"]
            /\ gResult' = [gResult EXCEPT ![c] = "BudgetExceeded"]
            /\ UNCHANGED <<executed, currentCount>>
       ELSE /\ gPc' = [gPc EXCEPT ![c] = "call"]
            /\ currentCount' = [currentCount EXCEPT ![c] = apiCount[dailyKey[c]]]
            /\ executed' = [executed EXCEPT ![today] = @ + 1]
            /\ UNCHANGED gResult
    /\ UNCHANGED <<today, apiCount, apiTtl, dailyKey, newCount, started>>

\* The wrapped request function resolves (line 33 returns).
GovCallOk(c) ==
    /\ UNCHANGED notGovVars
    /\ gPc[c] = "call"
    /\ gPc' = [gPc EXCEPT ![c] = "incr"]
    /\ UNCHANGED <<today, apiCount, apiTtl, dailyKey, currentCount, newCount,
                   gResult, executed, started>>

\* A governor that counts the attempt although the request function threw;
\* C37 must fail under it.
GovCallFailCounted(c) ==
    /\ UNCHANGED notGovVars
    /\ gPc[c] = "call"
    /\ gPc' = [gPc EXCEPT ![c] = "idle"]
    /\ gResult' = [gResult EXCEPT ![c] = "RequestError"]
    /\ currentCount' = [currentCount EXCEPT ![c] = 0]
    /\ apiCount' = [apiCount EXCEPT ![dailyKey[c]] = @ + 1]
    /\ UNCHANGED <<today, apiTtl, dailyKey, newCount, executed, started>>

\* The wrapped request function throws: the error leaves makeApiCallWithCount
\* before line 36.
GovCallFail(c) ==
    /\ UNCHANGED notGovVars
    /\ gPc[c] = "call"
    /\ gPc' = [gPc EXCEPT ![c] = "idle"]
    /\ gResult' = [gResult EXCEPT ![c] = "RequestError"]
    /\ currentCount' = [currentCount EXCEPT ![c] = 0]
    /\ UNCHANGED <<today, apiCount, apiTtl, dailyKey, newCount, executed, started>>

\* A counter kept by writing back the value read at line 22 plus one, which
\* loses increments of concurrent calls; C23 must fail under it.
GovIncrWriteBack(c) ==
    /\ UNCHANGED notGovVars
    /\ gPc[c] = "incr"
    /\ apiCount' = [apiCount EXCEPT ![dailyKey[c]] = currentCount[c] + 1]
    /\ newCount' = [newCount EXCEPT ![c] = currentCount[c] + 1]
    /\ gPc' = [gPc EXCEPT ![c] = "expire"]
    /\ UNCHANGED <<today, apiTtl, dailyKey, currentCount, gResult, executed, started>>

\* redis.incr (line 36).
GovIncr(c) ==
    /\ UNCHANGED notGovVars
    /\ gPc[c] = "incr"
    /\ apiCount' = [apiCount EXCEPT ![dailyKey[c]] = @ + 1]
    /\ newCount' = [newCount EXCEPT ![c] = apiCount[dailyKey[c]] + 1]
    /\ gPc' = [gPc EXCEPT ![c] = "expire"]
    /\ UNCHANGED <<today, apiTtl, dailyKey, currentCount, gResult, executed, started>>

\* redis.expire on the first call of the day, then the response is returned
\* (lines 39-47).
GovExpire(c) ==
    /\ UNCHANGED notGovVars
    /\ gPc[c] = "expire"
    /\ apiTtl' = IF newCount[c] = 1
                 THEN [apiTtl EXCEPT ![dailyKey[c]] = TRUE]
                 ELSE apiTtl
    /\ gPc' = [gPc EXCEPT ![c] = "idle"]
    /\ gResult' = [gResult EXCEPT ![c] = "ok"]
    /\ currentCount' = [currentCount EXCEPT ![c] = 0]
    /\ newCount' = [newCount EXCEPT ![c] = 0]
    /\ UNCHANGED <<today, apiCount, dailyKey, executed, started>>

\* The UTC date changes.
GovMidnight ==
    /\ UNCHANGED notGovVars
    /\ today < MaxDay
    /\ today' = today + 1
    /\ UNCHANGED <<apiCount, apiTtl, gPc, dailyKey, currentCount, newCount,
                   gResult, executed, started>>

\* A key whose 24 h expiry has run out disappears; the expiry was set during
\* the key's own day, so this is after that day has ended.
GovKeyExpires(d) ==
    /\ UNCHANGED notGovVars
    /\ d < today
    /\ apiTtl[d]
    /\ apiCount' = [apiCount EXCEPT ![d] = 0]
    /\ apiTtl' = [apiTtl EXCEPT ![d] = FALSE]
    /\ UNCHANGED <<today, gPc, dailyKey, currentCount, newCount, gResult,
                   executed, started>>

GovNext ==
    \/ \E c \in Callers : GovStart(c)
    \/ \E c \in Callers : GovGet(c)
    \/ \E c \in Callers : GovCallOk(c)
    \/ \E c \in Callers : GovCallFail(c)
    \/ \E c \in Callers : GovIncr(c)
    \/ \E c \in Callers : GovExpire(c)
    \/ GovMidnight
    \/ \E d \in Days : GovKeyExpires(d)

\* Callers that come one after the other, as Scenario A has them: a call is
\* begun only when no other is under way, and the upstream answers it.
MaxSeqCalls == 3

SeqStart(c) ==
    /\ UNCHANGED notGovVars
    /\ \A k \in Callers : gPc[k] = "idle"
    /\ started < MaxSeqCalls
    /\ started' = started + 1
    /\ dailyKey' = [dailyKey EXCEPT ![c] = today]
    /\ gPc' = [gPc EXCEPT ![c] = "get"]
    /\ gResult' = [gResult EXCEPT ![c] = "none"]
    /\ UNCHANGED <<today, apiCount, apiTtl, currentCount, newCount, executed>>

\* The UTC date changes between two calls.
SeqMidnight ==
    /\ \A k \in Callers : gPc[k] = "idle"
    /\ GovMidnight

GovSeqNext ==
    \/ \E c \in Callers : SeqStart(c)
    \/ \E c \in Callers : GovGet(c)
    \/ \E c \in Callers : GovCallOk(c)
    \/ \E c \in Callers : GovIncr(c)
    \/ \E c \in Callers : GovExpire(c)
    \/ SeqMidnight
    \/ \E d \in Days : GovKeyExpires(d)

\* The governor's keys as the other components find them: one day, its
\* counter one call below the limit or at it, and no guarded call under way.
GovNearLimit ==
    /\ today = 0
    /\ \E c0 \in {API_DAILY_LIMIT - 1, API_DAILY_LIMIT} :
          /\ apiCount = [d \in Days |-> IF d = 0 THEN c0 ELSE 0]
          /\ executed = [d \in Days |-> IF d = 0 THEN c0 ELSE 0]
    /\ apiTtl = [d \in Days |-> d = 0]
    /\ gPc = [c \in Callers |-> "idle"]
    /\ dailyKey = [c \in Callers |-> 0]
    /\ currentCount = [c \in Callers |-> 0]
    /\ newCount = [c \in Callers |-> 0]
    /\ gResult = [c \in Callers |-> "none"]
    /\ started = 0

-----------------------------------------------------------------------------
(*                              TOKEN MANAGER                              *)

\* The getValidToken of each worker:
\*   "refresh"   refresh-worker.js 66-111: lock, re-check of the cache
\*   "discovery" discovery-worker.js 79-113: lock, re-check, 2 s pause before release
\*   "cron"      api/crons/refresh-worker.js 58-87: lock, no re-check, 2 s pause
\*   "quickscan" quick-scan.js 88-121: no lock, 2 s pause
Variants == {"refresh", "discovery", "cron", "quickscan"}
LockingVariants == {"refresh", "discovery", "cron"}

UsesLock(v) == v # "quickscan"
Rechecks(v) == v \in {"refresh", "discovery"}
Pauses(v) == v # "refresh"

TokIdle ==
    /\ token = 0
    /\ tokLock = 0
    /\ tPc = [c \in Callers |-> "start"]
    /\ access_token = [c \in Callers |-> 0]
    /\ tResult = [c \in Callers |-> 0]
    /\ exchanges = 0
    /\ cachedAtLock = [c \in Callers |-> 0]

\* An empty token cache, a free lock, and every caller about to call.
TokInit ==
    /\ TokIdle
    /\ variant \in [Callers -> Variants]

TokInitLock ==
    /\ TokIdle
    /\ variant \in [Callers -> LockingVariants]

\* First look at the cache (redis.get, fast path).
TokGet(c) ==
    /\ UNCHANGED notTokVars
    /\ tPc[c] = "start"
    /\ IF token # 0
       THEN /\ tPc' = [tPc EXCEPT ![c] = "done"]
            /\ tResult' = [tResult EXCEPT ![c] = token]
       ELSE /\ tPc' = [tPc EXCEPT ![c] = IF UsesLock(variant[c]) THEN "lock" ELSE "guard"]
            /\ UNCHANGED tResult
    /\ UNCHANGED <<govVars, token, tokLock, variant, access_token, exchanges,
                   cachedAtLock>>

\* redis.set(lockKey, "1", "EX", 10, "NX"): taken if absent, else the caller
\* goes to sleep for 2 s.
TokSetNX(c) ==
    /\ UNCHANGED notTokVars
    /\ tPc[c] = "lock"
    /\ IF tokLock = 0
       THEN /\ tokLock' = c
            /\ cachedAtLock' = [cachedAtLock EXCEPT ![c] = token]
            /\ tPc' = [tPc EXCEPT ![c] = IF Rechecks(variant[c]) THEN "recheck" ELSE "guard"]
       ELSE /\ tPc' = [tPc EXCEPT ![c] = "sleep"]
            /\ UNCHANGED <<tokLock, cachedAtLock>>
    /\ UNCHANGED <<govVars, token, variant, access_token, tResult, exchanges>>

\* The 2 s sleep ends and getValidToken calls itself.
TokRetry(c) ==
    /\ UNCHANGED notTokVars
    /\ tPc[c] = "sleep"
    /\ tPc' = [tPc EXCEPT ![c] = "start"]
    /\ UNCHANGED <<govVars, token, tokLock, variant, access_token, tResult, exchanges,
                   cachedAtLock>>

\* Second look at the cache, under the lock.
TokRecheck(c) ==
    /\ UNCHANGED notTokVars
    /\ tPc[c] = "recheck"
    /\ IF token # 0
       THEN /\ tPc' = [tPc EXCEPT ![c] = "release"]
            /\ access_token' = [access_token EXCEPT ![c] = token]
       ELSE /\ tPc' = [tPc EXCEPT ![c] = "guard"]
            /\ UNCHANGED access_token
    /\ UNCHANGED <<govVars, token, tokLock, variant, tResult, exchanges,
                   cachedAtLock>>

\* Where a caller goes when its exchange throws: the locking variants pass
\* their finally block, quick-scan.js has none.  Before it, a faulty variant
\* that leaves at once, under which C20 must fail.
AfterThrowNoFinally(c) == "done"
AfterThrow(c) == IF UsesLock(variant[c]) THEN "release" ELSE "done"

\* makeApiCallWithCount around the exchange: refused at the limit, else the
\* POST to the provider is sent.
TokGuard(c) ==
    /\ UNCHANGED notTokVars
    /\ tPc[c] = "guard"
    /\ IF LimitReached(apiCount[today])
       THEN /\ tPc' = [tPc EXCEPT ![c] = AfterThrow(c)]
            /\ tResult' = [tResult EXCEPT ![c] = IF UsesLock(variant[c]) THEN 0 ELSE -1]
            /\ UNCHANGED <<exchanges, executed>>
       ELSE /\ tPc' = [tPc EXCEPT ![c] = "exchange"]
            /\ exchanges' = exchanges + 1
            /\ executed' = [executed EXCEPT ![today] = @ + 1]
            /\ UNCHANGED tResult
    /\ UNCHANGED <<today, apiCount, apiTtl, gPc, dailyKey, currentCount, newCount,
                   gResult, started, token, tokLock, variant, access_token,
                   cachedAtLock>>

\* The provider answers with a fresh token; the call is counted and the
\* token is written to the cache with its expiry.
TokExchangeOk(c) ==
    /\ UNCHANGED notTokVars
    /\ tPc[c] = "exchange"
    /\ apiCount' = [apiCount EXCEPT ![today] = @ + 1]
    /\ apiTtl' = IF apiCount[today] + 1 = 1 THEN [apiTtl EXCEPT ![today] = TRUE] ELSE apiTtl
    /\ \E t \in 1..exchanges :
          /\ t \notin {access_token[d] : d \in Callers} \cup {token}
          /\ access_token' = [access_token EXCEPT ![c] = t]
          /\ token' = t
    /\ tPc' = [tPc EXCEPT ![c] = IF Pauses(variant[c]) THEN "pause"
                                 ELSE "release"]
    /\ UNCHANGED <<today, gPc, dailyKey, currentCount, newCount, gResult, executed,
                   started, tokLock, variant, tResult, exchanges, cachedAtLock>>

\* The exchange fails (after axios-retry's attempts).
TokExchangeFail(c) ==
    /\ UNCHANGED notTokVars
    /\ tPc[c] = "exchange"
    /\ tPc' = [tPc EXCEPT ![c] = AfterThrow(c)]
    /\ tResult' = [tResult EXCEPT ![c] = IF UsesLock(variant[c]) THEN 0 ELSE -1]
    /\ UNCHANGED <<govVars, token, tokLock, variant, access_token, exchanges,
                   cachedAtLock>>

\* The 2 s pause after a fresh token ends.
TokPaused(c) ==
    /\ UNCHANGED notTokVars
    /\ tPc[c] = "pause"
    /\ tPc' = [tPc EXCEPT ![c] = IF UsesLock(variant[c]) THEN "release" ELSE "done"]
    /\ tResult' = [tResult EXCEPT ![c] = IF UsesLock(variant[c]) THEN 0 ELSE access_token[c]]
    /\ UNCHANGED <<govVars, token, tokLock, variant, access_token, exchanges,
                   cachedAtLock>>

\* finally { redis.del(lockKey) }: the key is deleted whoever created it;
\* then the token is returned, or the error thrown.
TokRelease(c) ==
    /\ UNCHANGED notTokVars
    /\ tPc[c] = "release"
    /\ tokLock' = 0
    /\ tPc' = [tPc EXCEPT ![c] = "done"]
    /\ tResult' = [tResult EXCEPT ![c] = IF access_token[c] # 0 THEN access_token[c] ELSE -1]
    /\ UNCHANGED <<govVars, token, variant, access_token, exchanges,
                   cachedAtLock>>

\* The lock key's 10 s expiry runs out while its holder awaits the exchange
\* (axios-retry waits 2 s, 4 s and 6 s between attempts) or pauses.
TokLockExpires ==
    /\ UNCHANGED notTokVars
    /\ tokLock # 0
    /\ tPc[tokLock] \in {"exchange", "pause"}
    /\ tokLock' = 0
    /\ UNCHANGED <<govVars, token, variant, tPc, access_token, tResult, exchanges,
                   cachedAtLock>>

TokNext ==
    \/ \E c \in Callers : TokGet(c)
    \/ \E c \in Callers : TokSetNX(c)
    \/ \E c \in Callers : TokRetry(c)
    \/ \E c \in Callers : TokRecheck(c)
    \/ \E c \in Callers : TokGuard(c)
    \/ \E c \in Callers : TokExchangeOk(c)
    \/ \E c \in Callers : TokExchangeFail(c)
    \/ \E c \in Callers : TokPaused(c)
    \/ \E c \in Callers : TokRelease(c)
    \/ TokLockExpires

\* The process of a caller that holds the lock dies: its finally block never
\* runs and the lock key stays behind.
TokCrash(c) ==
    /\ UNCHANGED notTokVars
    /\ tokLock = c
    /\ tPc[c] \in {"recheck", "guard", "exchange", "pause", "release"}
    /\ tPc' = [tPc EXCEPT ![c] = "crashed"]
    /\ UNCHANGED <<govVars, token, tokLock, variant, access_token, tResult, exchanges,
                   cachedAtLock>>

\* The key was set with EX 10: ten seconds after the SET it is gone, also
\* when its holder is no more.  Before it, a key set without an expiry, a
\* faulty variant under which C21 must fail.
RunsOutNever(holder) == FALSE
RunsOut(holder) == tPc[holder] = "crashed"

TokLockExpiresAfterCrash ==
    /\ UNCHANGED notTokVars
    /\ tokLock # 0
    /\ RunsOut(tokLock)
    /\ tokLock' = 0
    /\ UNCHANGED <<govVars, token, variant, tPc, access_token, tResult, exchanges,
                   cachedAtLock>>

\* The steps of one caller's invocation.
\* The invocations followed to their end: two concurrent calls of
\* getValidToken; any further caller has returned before.
LiveCallers == {1, 2}
TokInitLive ==
    /\ token = 0
    /\ tokLock = 0
    /\ exchanges = 0
    /\ cachedAtLock = [c \in Callers |-> 0]
    /\ access_token = [c \in Callers |-> 0]
    /\ tResult = [c \in Callers |-> 0]
    /\ tPc = [c \in Callers |-> IF c \in LiveCallers THEN "start" ELSE "done"]
    /\ variant \in [Callers -> LockingVariants]
    /\ \A c \in Callers \ LiveCallers : variant[c] = "refresh"

TokStep(c) ==
    \/ TokGet(c) \/ TokSetNX(c) \/ TokRetry(c) \/ TokRecheck(c) \/ TokGuard(c)
    \/ TokExchangeOk(c) \/ TokExchangeFail(c) \/ TokPaused(c) \/ TokRelease(c)

TokLiveNext ==
    \/ TokNext
    \/ \E c \in Callers : TokCrash(c)
    \/ TokLockExpiresAfterCrash

\* Every await of a running invocation settles (redis answers, the request
\* resolves or rejects, the timer of delay fires), and redis removes a key
\* whose time to live has passed.
TokFairness ==
    /\ \A c \in Callers : WF_vars(TokStep(c))
    /\ WF_vars(TokLockExpiresAfterCrash)

-----------------------------------------------------------------------------
(*                    UPSTREAM LISTINGS AND DURABLE STORE                  *)

\* The listings the model's upstream can hold.  Each animal id lies in one
\* hub's search radius, belongs to one organization and carries one kind of
\* first video: "ok" (a src on a playable host), "blocked" (a src on
\* youtube, vimeo or facebook) or "none" (no video, or an embed with no src).
HubOf(a) == ((a - 1) % NumHubs) + 1
OrgOf(a) == IF a <= 2 THEN 1 ELSE 2
VideoOf(a) == CASE a % 3 = 1 -> "ok"
                [] a % 3 = 2 -> "blocked"
                [] OTHER -> "none"

\* getPlayableVideoUrl of discovery-worker.js: any embed with a src.
PlayableDiscovery(a) == VideoOf(a) # "none"
\* getPlayableVideoUrl of quick-scan.js: a src that is on no blocked host.
PlayableQuick(a) == VideoOf(a) = "ok"

Ids(rws) == {r.id : r \in rws}
RowOf(rws, a) == CHOOSE r \in rws : r.id = a

\* The row a create or an upsert writes for a listing: the listing's fields
\* and, as the column is filled by the client on every write, lastSeenAt.
NewRow(a) ==
    [id |-> a, lastSeenAt |-> now, rev |-> upRev[a], organizationId |-> OrgOf(a)]

\* AnimalWithVideo_organizationId_fkey.
FkOk(o) == o = 0 \/ o \in orgs

\* prisma.animalWithVideo.create: AnimalWithVideo_pkey rejects a second row
\* of the same id.
DbCreate(rws, r) == IF r.id \in Ids(rws) THEN rws ELSE rws \cup {r}

\* prisma.animalWithVideo.upsert({where: {id}}): the row of that id is
\* replaced, or the row is inserted.  Before it, an insert that ignores the
\* key, a faulty variant under which C6 must fail.
DbUpsertNoKey(rws, r) == rws \cup {r}
DbUpsert(rws, r) == {x \in rws : x.id # r.id} \cup {r}

RECURSIVE SeqOf(_)
\* A set of ids as a sequence, in ascending order.
SeqOf(S) ==
    IF S = {} THEN <<>>
    ELSE LET m == CHOOSE x \in S : \A y \in S : x <= y
         IN <<m>> \o SeqOf(S \ {m})

RECURSIVE RecentSeq(_)
\* sort: "recent": latest added first.
RecentSeq(S) ==
    IF S = {} THEN <<>>
    ELSE LET m == CHOOSE x \in S : \A y \in S :
                     \/ upAdded[x] > upAdded[y]
                     \/ upAdded[x] = upAdded[y] /\ x <= y
         IN <<m>> \o RecentSeq(S \ {m})

\* The animals the search endpoint lists for a hub (fewer than one page of
\* 100 in this model), without and with the "after" cursor.
PageOf(h) == {a \in AnimalIds : upAdded[a] # 0 /\ HubOf(a) = h}
PageAfter(h, after) == {a \in PageOf(h) : upAdded[a] > after}

-----------------------------------------------------------------------------
(*                        DISCOVERY AND QUICK-SCAN                         *)

\* The scan timestamp stored when the model starts (when one is stored).
InitScanTime == 1

ScanIdle ==
    /\ job = "none"
    /\ jPc = "idle"
    /\ jHub = 0
    /\ startTime = 0
    /\ jAfter = 0
    /\ jOrgs = <<>>
    /\ jAnimals = <<>>
    /\ newAnimalsFoundInHub = 0
    /\ runs = 0
    /\ qsUpserted = {}
    /\ firstKind = "none"
    /\ firstIds = {}
    /\ repeated = FALSE
    /\ upChanged = FALSE
    /\ upEvents = 0

\* Some listings exist upstream, added before the stored scan timestamp (if
\* one is stored); the calls for one hub may be failing; the store is empty;
\* the day's budget is fresh or almost used up.
ScanInit ==
    /\ ScanIdle
    /\ now = InitScanTime + 1
    /\ upAdded \in [AnimalIds -> {0, InitScanTime}]
    /\ upRev = [a \in AnimalIds |-> 1]
    /\ hubDown \in {{}} \cup {{h} : h \in CITY_HUBS}
    /\ orgDown = {}
    /\ rows = {}
    /\ orgs = {}
    /\ lastScanTime \in {0, InitScanTime}
    /\ today = 0
    /\ \E c0 \in {0, API_DAILY_LIMIT - ScanSlack} :
          /\ apiCount = [d \in Days |-> IF d = 0 THEN c0 ELSE 0]
          /\ executed = [d \in Days |-> IF d = 0 THEN c0 ELSE 0]
          /\ apiTtl = [d \in Days |-> d = 0 /\ c0 > 0]
    /\ gPc = [c \in Callers |-> "idle"]
    /\ dailyKey = [c \in Callers |-> 0]
    /\ currentCount = [c \in Callers |-> 0]
    /\ newCount = [c \in Callers |-> 0]
    /\ gResult = [c \in Callers |-> "none"]
    /\ started = 0

\* Bookkeeping of "the same job run again over an unchanged upstream".
SeriesStart(k) ==
    IF firstKind = k /\ ~upChanged
    THEN /\ repeated' = TRUE
         /\ UNCHANGED <<firstKind, firstIds, upChanged>>
    ELSE /\ repeated' = FALSE
         /\ firstKind' = k
         /\ firstIds' = {}
         /\ upChanged' = FALSE

SeriesEnd == firstIds' = IF repeated THEN firstIds ELSE Ids(rows)

\* cron fires runDiscoveryScan.
ScanStartDiscovery ==
    /\ UNCHANGED notScanVars
    /\ job = "none"
    /\ runs < MaxRuns
    /\ runs' = runs + 1
    /\ job' = "discovery"
    /\ jPc' = "hub"
    /\ jHub' = 1
    /\ SeriesStart("discovery")
    /\ UNCHANGED <<envVars, dbVars, apiCount, executed, lastScanTime, startTime,
                   jAfter, jOrgs, jAnimals, newAnimalsFoundInHub, qsUpserted, upEvents>>

\* cron fires runQuickScan: the start time is taken and the stored scan
\* timestamp is read; without one the run returns at once (lines 168-176).
ScanStartQuick ==
    /\ UNCHANGED notScanVars
    /\ job = "none"
    /\ runs < MaxRuns
    /\ now < ScanMaxNow
    /\ runs' = runs + 1
    /\ job' = "quickscan"
    /\ startTime' = now
    /\ now' = now + 1
    /\ jAfter' = lastScanTime
    /\ jPc' = IF lastScanTime = 0 THEN "return" ELSE "hub"
    /\ jHub' = 1
    /\ SeriesStart("quickscan")
    /\ UNCHANGED <<upAdded, upRev, hubDown, orgDown, dbVars, apiCount, executed,
                   lastScanTime, jOrgs, jAnimals, newAnimalsFoundInHub, qsUpserted,
                   upEvents>>

\* The animals of a hub's page that the job keeps.
Kept(h) ==
    IF job = "discovery"
    THEN {a \in PageOf(h) : PlayableDiscovery(a)}
    ELSE {a \in PageAfter(h, jAfter) : PlayableQuick(a)}

\* Where the hub loop goes when the hub's catch block has logged a failure:
\* to the next hub of CITY_HUBS.  Before it, a loop that gives the run up,
\* under which C27 must fail.
AfterCatchGiveUp == NumHubs + 1
AfterCatch == jHub + 1

\* One hub: coordinates, token and the guarded search call.  A refused or
\* failed call is caught by the hub's try block and the loop goes on with
\* the next hub; so does a page with no video animal.
ScanHub ==
    /\ UNCHANGED notScanVars
    /\ job # "none"
    /\ jPc = "hub"
    /\ jHub <= NumHubs
    /\ newAnimalsFoundInHub' = 0
    /\ IF LimitReached(apiCount[today])
       THEN /\ jHub' = AfterCatch
            /\ UNCHANGED <<apiCount, executed, jPc, jOrgs, jAnimals>>
       ELSE /\ executed' = [executed EXCEPT ![today] = @ + 1]
            /\ IF jHub \in hubDown
               THEN /\ jHub' = AfterCatch
                    /\ UNCHANGED <<apiCount, jPc, jOrgs, jAnimals>>
               ELSE /\ apiCount' = [apiCount EXCEPT ![today] = @ + 1]
                    /\ IF Kept(jHub) = {}
                       THEN /\ jHub' = jHub + 1
                            /\ UNCHANGED <<jPc, jOrgs, jAnimals>>
                       ELSE /\ jPc' = "orgs"
                            /\ jOrgs' = SeqOf({OrgOf(a) : a \in Kept(jHub)})
                            /\ jAnimals' = IF job = "discovery"
                                           THEN SeqOf(Kept(jHub))
                                           ELSE RecentSeq(Kept(jHub))
                            /\ UNCHANGED jHub
    /\ UNCHANGED <<envVars, dbVars, lastScanTime, job, startTime, jAfter, runs,
                   qsUpserted, firstKind, firstIds, repeated, upChanged, upEvents>>

\* One organization of the page: guarded detail call and upsert; a refused
\* or failed call is caught and the organization is left as it is.
ScanOrg ==
    /\ UNCHANGED notScanVars
    /\ jPc = "orgs"
    /\ LET o == Head(jOrgs) IN
         IF LimitReached(apiCount[today])
         THEN UNCHANGED <<apiCount, executed, orgs>>
         ELSE /\ executed' = [executed EXCEPT ![today] = @ + 1]
              /\ IF o \in orgDown
                 THEN UNCHANGED <<apiCount, orgs>>
                 ELSE /\ apiCount' = [apiCount EXCEPT ![today] = @ + 1]
                      /\ orgs' = orgs \cup {o}
    /\ jOrgs' = Tail(jOrgs)
    /\ jPc' = IF Tail(jOrgs) = <<>> THEN "animals" ELSE "orgs"
    /\ UNCHANGED <<envVars, rows, lastScanTime, job, jHub, startTime, jAfter,
                   jAnimals, newAnimalsFoundInHub, runs, qsUpserted, firstKind,
                   firstIds, repeated, upChanged, upEvents>>

\* Discovery: create the animal unless a row of its id exists.
DiscoverySave(a) ==
    /\ rows' = IF a \in Ids(rows) \/ ~FkOk(OrgOf(a))
               THEN rows
               ELSE DbCreate(rows, NewRow(a))
    /\ UNCHANGED <<newAnimalsFoundInHub, qsUpserted>>

\* Quick-Scan: upsert the animal; a saved animal counts towards the hub's cap.
QuickSave(a) ==
    IF FkOk(OrgOf(a))
    THEN /\ rows' = DbUpsert(rows, NewRow(a))
         /\ newAnimalsFoundInHub' = newAnimalsFoundInHub + 1
         /\ qsUpserted' = qsUpserted \cup {a}
    ELSE UNCHANGED <<rows, newAnimalsFoundInHub, qsUpserted>>

\* One video animal of the page is saved, or the page is finished (no animal
\* left, or Quick-Scan's per-hub cap reached) and the loop goes to the next hub.
ScanAnimal ==
    /\ UNCHANGED notScanVars
    /\ jPc = "animals"
    /\ IF jAnimals = <<>> \/ (job = "quickscan" /\ newAnimalsFoundInHub >= TARGET_PER_HUB)
       THEN /\ jPc' = "hub"
            /\ jHub' = jHub + 1
            /\ jAnimals' = <<>>
            /\ UNCHANGED <<rows, newAnimalsFoundInHub, qsUpserted>>
       ELSE /\ IF job = "discovery"
               THEN DiscoverySave(Head(jAnimals))
               ELSE QuickSave(Head(jAnimals))
            /\ jAnimals' = Tail(jAnimals)
            /\ UNCHANGED <<jPc, jHub>>
    /\ UNCHANGED <<envVars, orgs, apiCount, executed, lastScanTime, job, startTime,
                   jAfter, jOrgs, runs, firstKind, firstIds, repeated, upChanged,
                   upEvents>>

\* A run that stamps the moment it ends instead; C24 must fail under it.
NewScanTimeAtEnd == now
\* The value Quick-Scan stores as the new scan timestamp (line 323).
NewScanTime == startTime

\* After the last hub: Quick-Scan stores its start time as the new scan
\* timestamp; Discovery just ends.
ScanEnd ==
    /\ UNCHANGED notScanVars
    /\ job # "none"
    /\ jPc = "hub"
    /\ jHub > NumHubs
    /\ lastScanTime' = IF job = "quickscan" THEN NewScanTime ELSE lastScanTime
    /\ job' = "none"
    /\ jPc' = "idle"
    /\ jHub' = 0
    /\ startTime' = 0
    /\ jAfter' = 0
    /\ SeriesEnd
    /\ UNCHANGED <<envVars, dbVars, apiCount, executed, jOrgs, jAnimals,
                   newAnimalsFoundInHub, runs, qsUpserted, firstKind, repeated,
                   upChanged, upEvents>>

\* Quick-Scan found no stored timestamp and returns.
ScanReturn ==
    /\ UNCHANGED notScanVars
    /\ jPc = "return"
    /\ job' = "none"
    /\ jPc' = "idle"
    /\ jHub' = 0
    /\ startTime' = 0
    /\ SeriesEnd
    /\ UNCHANGED <<envVars, dbVars, apiCount, executed, lastScanTime, jAfter, jOrgs,
                   jAnimals, newAnimalsFoundInHub, runs, qsUpserted, firstKind,
                   repeated, upChanged, upEvents>>

\* Upstream: a listing is added.
UpAdd(a) ==
    /\ upAdded[a] = 0
    /\ upAdded' = [upAdded EXCEPT ![a] = now]
    /\ upEvents < MaxUpEvents
    /\ upEvents' = upEvents + 1
    /\ upChanged' = TRUE
    /\ UNCHANGED <<govVars, tokVars, now, upRev, hubDown, orgDown, dbVars,
                   lastScanTime, job, jPc, jHub, startTime, jAfter, jOrgs, jAnimals,
                   newAnimalsFoundInHub, runs, qsUpserted, firstKind, firstIds,
                   repeated, refVars, deepVars, janVars, appVars>>

\* Upstream: calls for a hub start to fail, or work again.
HubFlip(h) ==
    /\ hubDown' = IF h \in hubDown THEN hubDown \ {h} ELSE hubDown \cup {h}
    /\ upEvents < MaxUpEvents
    /\ upEvents' = upEvents + 1
    /\ upChanged' = TRUE
    /\ UNCHANGED <<govVars, tokVars, now, upAdded, upRev, orgDown, dbVars,
                   lastScanTime, job, jPc, jHub, startTime, jAfter, jOrgs, jAnimals,
                   newAnimalsFoundInHub, runs, qsUpserted, firstKind, firstIds,
                   repeated, refVars, deepVars, janVars, appVars>>

\* Upstream: the detail call of an organization starts to fail, or works again.
OrgFlip(o) ==
    /\ orgDown' = IF o \in orgDown THEN orgDown \ {o} ELSE orgDown \cup {o}
    /\ upEvents < MaxUpEvents
    /\ upEvents' = upEvents + 1
    /\ upChanged' = TRUE
    /\ UNCHANGED <<govVars, tokVars, now, upAdded, upRev, hubDown, dbVars,
                   lastScanTime, job, jPc, jHub, startTime, jAfter, jOrgs, jAnimals,
                   newAnimalsFoundInHub, runs, qsUpserted, firstKind, firstIds,
                   repeated, refVars, deepVars, janVars, appVars>>

\* runQuickScan is rejected by redis.get at line 171, before anything else
\* has happened: the promise rejects and cron's catch logs the fatal error.
ScanReadFails ==
    /\ UNCHANGED notScanVars
    /\ job = "none"
    /\ runs < MaxRuns
    /\ runs' = runs + 1
    /\ UNCHANGED <<envVars, dbVars, apiCount, executed, lastScanTime, job, jPc, jHub,
                   startTime, jAfter, jOrgs, jAnimals, newAnimalsFoundInHub,
                   qsUpserted, firstKind, firstIds, repeated, upChanged, upEvents>>

\* redis.set of line 323 rejects after the last hub: the run ends by the
\* unhandled failure and the stored timestamp stays.
ScanWriteFails ==
    /\ UNCHANGED notScanVars
    /\ job = "quickscan"
    /\ jPc = "hub"
    /\ jHub > NumHubs
    /\ job' = "none"
    /\ jPc' = "idle"
    /\ jHub' = 0
    /\ startTime' = 0
    /\ jAfter' = 0
    /\ SeriesEnd
    /\ UNCHANGED <<envVars, dbVars, apiCount, executed, lastScanTime, jOrgs, jAnimals,
                   newAnimalsFoundInHub, runs, qsUpserted, firstKind, repeated,
                   upChanged, upEvents>>

ScanNext ==
    \/ ScanStartDiscovery
    \/ ScanStartQuick
    \/ ScanHub
    \/ ScanOrg
    \/ ScanAnimal
    \/ ScanEnd
    \/ ScanReturn
    \/ \E a \in AnimalIds : UpAdd(a)
    \/ \E h \in CITY_HUBS : HubFlip(h)
    \/ \E o \in OrgIds : OrgFlip(o)

-----------------------------------------------------------------------------
(*                         REVALIDATION AND PRUNING                        *)

\* Time is counted in ticks; the hour marks are the multiples of TicksPerHour.
Hours(h) == h * TicksPerHour
OnTheHour == now % TicksPerHour = 0

\* where: {lastSeenAt: {lt: cutoff}}; before it, the test with lte for lt, a
\* faulty variant under which C9 must fail.
StaleAtOrBefore(r, cutoff) == r.lastSeenAt <= cutoff
StaleBefore(r, cutoff) == r.lastSeenAt < cutoff

\* The cutoffs the workers compute from the clock; before the Janitor's, a
\* cutoff of 25 hours, a faulty variant under which the amended C10 must fail.
cutoffOneHourLate == now - Hours(25)
twentyFourHoursAgo == now - Hours(24)
cutoffDate == now - Hours(REFRESH_THRESHOLD_HOURS)
pruneCutoffDate == now - Hours(25)
twentyFiveHoursAgo == now - Hours(25)
twentyThreeHoursAgo == now - Hours(23)

\* prisma.animalWithVideo.update / updateMany on the row of an id: the data
\* given is written and, the column being filled by the client on every
\* write, lastSeenAt becomes the time of the write.
\* Before it, a touch that writes the time its run started, under which
\* C34 must fail.
TouchedAtRunStart(r) == [r EXCEPT !.lastSeenAt = dStartTime]
Touched(r) == [r EXCEPT !.lastSeenAt = now]
Rewritten(r, rev) == [r EXCEPT !.rev = rev, !.lastSeenAt = now]

RECURSIVE OldestFirst(_)
\* orderBy: {lastSeenAt: "asc"}, as a sequence of ids.
OldestFirst(rws) ==
    IF rws = {} THEN <<>>
    ELSE LET m == CHOOSE x \in rws : \A y \in rws :
                     \/ x.lastSeenAt < y.lastSeenAt
                     \/ x.lastSeenAt = y.lastSeenAt /\ x.id <= y.id
         IN <<m.id>> \o OldestFirst(rws \ {m})

\* take: n
Take(seq, n) == SubSeq(seq, 1, IF Len(seq) < n THEN Len(seq) ELSE n)

Range(seq) == {seq[i] : i \in 1..Len(seq)}

\* How a detail call GET /animals/{id} ends when it gets through: the
\* listing's body, or 404 when the listing is gone upstream.
DetailStatus(a) == IF upAdded[a] = 0 THEN "404" ELSE "ok"

SweepIdle ==
    /\ rPc = "idle"
    /\ animalsToAudit = <<>>
    /\ results = [a \in AnimalIds |-> "none"]
    /\ animalData = [a \in AnimalIds |-> 0]
    /\ totalProcessed = 0
    /\ attempt = 0
    /\ refAt = 0
    /\ dPc = "idle"
    /\ dHub = 0
    /\ atRiskAnimals = <<>>
    /\ dOutcome = "none"
    /\ dBody = 0
    /\ dStartTime = 0
    /\ deepAt = 0
    /\ pruned = {}

\* When the stored rows were last seen: around the end of the first hour,
\* the second of them exactly at it.
InitSeen(a) == Hours(1) + a - 2

\* The store one tick before the 25th hour: the stored listings are
\* upstream; the Janitor has run at the last hour mark, when no row was older
\* than its threshold; the day's budget is fresh or used up.
SweepInit ==
    /\ SweepIdle
    /\ now = Hours(25) - 1
    /\ janitorAt = Hours(24)
    /\ upAdded = [a \in AnimalIds |-> InitScanTime]
    /\ upRev = [a \in AnimalIds |-> 1]
    /\ hubDown = {}
    /\ orgDown = {}
    /\ rows = {[id |-> a, lastSeenAt |-> InitSeen(a), rev |-> 1, organizationId |-> OrgOf(a)] :
                 a \in AnimalIds}
    /\ orgs = {OrgOf(a) : a \in AnimalIds}
    /\ lastScanTime = InitScanTime
    /\ today = 0
    /\ \E c0 \in {0, API_DAILY_LIMIT} :
          /\ apiCount = [d \in Days |-> IF d = 0 THEN c0 ELSE 0]
          /\ executed = [d \in Days |-> IF d = 0 THEN c0 ELSE 0]
          /\ apiTtl = [d \in Days |-> d = 0 /\ c0 > 0]
    /\ gPc = [c \in Callers |-> "idle"]
    /\ dailyKey = [c \in Callers |-> 0]
    /\ currentCount = [c \in Callers |-> 0]
    /\ newCount = [c \in Callers |-> 0]
    /\ gResult = [c \in Callers |-> "none"]
    /\ started = 0

SweepMaxNow == Hours(26)

\* The clock moves on.  The Janitor's cron entry fires at the top of every
\* hour, so an hour mark is not left before the Janitor has run at it.  A
\* run of a refresh job is taken to last less than a tick.
Tick ==
    /\ UNCHANGED notSweepVars
    /\ now < SweepMaxNow
    /\ rPc = "idle"
    /\ dPc = "idle"
    /\ OnTheHour => janitorAt = now
    /\ now' = now + 1
    /\ UNCHANGED <<upAdded, upRev, dbVars, apiCount, executed, lastScanTime,
                   upChanged, upEvents, refVars, deepVars, janVars>>

\* janitor-worker.js pruneStaleAnimals: deleteMany of the rows last seen
\* before the cutoff.
Janitor ==
    /\ UNCHANGED notSweepVars
    /\ OnTheHour
    /\ janitorAt # now
    /\ janitorAt' = now
    /\ rows' = {r \in rows : ~StaleBefore(r, twentyFourHoursAgo)}
    /\ pruned' = pruned \cup (Ids(rows) \ Ids(rows'))
    /\ UNCHANGED <<now, upAdded, upRev, orgs, apiCount, executed, lastScanTime,
                   upChanged, upEvents, refVars, deepVars>>

\* cron fires the hourly refresh job, once at the top of an hour.
RefStart ==
    /\ UNCHANGED notSweepVars
    /\ rPc = "idle"
    /\ OnTheHour
    /\ refAt # now
    /\ refAt' = now
    /\ rPc' = "select"
    /\ totalProcessed' = 0
    /\ UNCHANGED <<now, upAdded, upRev, dbVars, apiCount, executed, lastScanTime,
                   upChanged, upEvents, animalsToAudit, results, animalData, attempt,
                   deepVars, janVars>>

\* The job is over: runHourlyRefresh returned, or withRetry gave up.
RefDone ==
    /\ rPc' = "idle"
    /\ animalsToAudit' = <<>>
    /\ results' = [a \in AnimalIds |-> "none"]
    /\ animalData' = [a \in AnimalIds |-> 0]
    /\ totalProcessed' = 0
    /\ attempt' = 0

\* One pass of the while loop up to the dispatch of the batch: the rows last
\* seen before the cutoff are selected, oldest first, and one guarded detail
\* call per row is started.  The calls are started together, so each reads
\* the day's count before any of them has counted.
RefSelect ==
    /\ UNCHANGED notSweepVars
    /\ rPc = "select"
    /\ LET batch == Take(OldestFirst({r \in rows : StaleBefore(r, cutoffDate)}),
                         BATCH_LIMIT)
       IN IF batch = <<>>
          THEN /\ RefDone
               /\ UNCHANGED executed
          ELSE /\ animalsToAudit' = batch
               /\ animalData' = [a \in AnimalIds |-> 0]
               /\ UNCHANGED <<totalProcessed, attempt>>
               /\ IF LimitReached(apiCount[today])
                  THEN /\ results' = [a \in AnimalIds |->
                                        IF a \in Range(batch) THEN "budget" ELSE "none"]
                       /\ rPc' = "commit"
                       /\ UNCHANGED executed
                  ELSE /\ results' = [a \in AnimalIds |->
                                        IF a \in Range(batch) THEN "pending" ELSE "none"]
                       /\ rPc' = "fetch"
                       /\ executed' = [executed EXCEPT ![today] = @ + Len(batch)]
    /\ UNCHANGED <<now, upAdded, upRev, dbVars, apiCount, lastScanTime, upChanged,
                   upEvents, refAt, deepVars, janVars>>

\* Promise.allSettled: every detail call of the batch has settled, each with
\* the listing's body (and the call is counted), with 404, or with another
\* error.
RefSettle ==
    /\ UNCHANGED notSweepVars
    /\ rPc = "fetch"
    /\ \E failed \in SUBSET Range(animalsToAudit) :
          LET outcome(a) == IF a \in failed THEN "error" ELSE DetailStatus(a)
              counted == {a \in Range(animalsToAudit) : outcome(a) = "ok"}
          IN /\ results' = [a \in AnimalIds |->
                              IF a \in Range(animalsToAudit) THEN outcome(a) ELSE "none"]
             /\ animalData' = [a \in AnimalIds |->
                                 IF a \in counted THEN upRev[a] ELSE 0]
             /\ apiCount' = [apiCount EXCEPT ![today] = @ + Cardinality(counted)]
    /\ rPc' = "commit"
    /\ UNCHANGED <<now, upAdded, upRev, dbVars, executed, lastScanTime, upChanged,
                   upEvents, animalsToAudit, totalProcessed, attempt, refAt,
                   deepVars, janVars>>

\* A commit that runs the updates and drops the deletes; C28 must fail
\* under it.
CommittedUpdatesOnly(updates, deletes) ==
    {IF r.id \in updates THEN Rewritten(r, animalData[r.id]) ELSE r : r \in rows}

\* The rows after the batch's transaction: the fulfilled calls' rows are
\* rewritten with the fetched body, the 404 calls' rows are deleted.
Committed(updates, deletes) ==
    {IF r.id \in updates THEN Rewritten(r, animalData[r.id]) ELSE r :
        r \in {x \in rows : x.id \notin deletes}}

\* All calls have settled: the updates and deletes are run as one
\* transaction.  An update or delete of a row that is no longer there fails
\* the transaction, which is rolled back; the error leaves runHourlyRefresh
\* and withRetry starts the job again, RETRIES times at most.
RefCommit ==
    /\ UNCHANGED notSweepVars
    /\ rPc = "commit"
    /\ LET updates == {a \in Range(animalsToAudit) : results[a] = "ok"}
           deletes == {a \in Range(animalsToAudit) : results[a] = "404"}
           processed == totalProcessed + Len(animalsToAudit)
       IN IF (updates \cup deletes) \subseteq Ids(rows)
          THEN /\ rows' = Committed(updates, deletes)
               /\ IF processed < HOURLY_API_BUDGET /\ Len(animalsToAudit) = BATCH_LIMIT
                  THEN /\ rPc' = "select"
                       /\ totalProcessed' = processed
                       /\ UNCHANGED <<animalsToAudit, results, animalData, attempt>>
                  ELSE RefDone
          ELSE /\ UNCHANGED rows
               /\ IF attempt + 1 < RETRIES
                  THEN /\ rPc' = "select"
                       /\ attempt' = attempt + 1
                       /\ totalProcessed' = 0
                       /\ UNCHANGED <<animalsToAudit, results, animalData>>
                  ELSE RefDone
    /\ UNCHANGED <<now, upAdded, upRev, orgs, apiCount, executed, lastScanTime,
                   upChanged, upEvents, refAt, deepVars, janVars>>

\* cron fires the hourly refresh job and withRetry calls runHourlyRefresh,
\* which begins with getValidToken (line 116).
RefStartAuth ==
    /\ UNCHANGED notSweepVars
    /\ rPc = "idle"
    /\ OnTheHour
    /\ refAt # now
    /\ refAt' = now
    /\ rPc' = "token"
    /\ totalProcessed' = 0
    /\ UNCHANGED <<now, upAdded, upRev, dbVars, apiCount, executed, lastScanTime,
                   upChanged, upEvents, animalsToAudit, results, animalData, attempt,
                   deepVars, janVars>>

\* withRetry's catch block: the job's error is kept and, unless this was the
\* last attempt, the job is called again after the delay (lines 46-64).
RefThrown ==
    IF attempt + 1 < RETRIES
    THEN /\ rPc' = "token"
         /\ attempt' = attempt + 1
         /\ totalProcessed' = 0
         /\ UNCHANGED <<animalsToAudit, results, animalData>>
    ELSE RefDone

\* getValidToken of the job, with no other caller about: the cached token is
\* returned, or the guarded credential exchange is made.  A refused or
\* failed exchange is rethrown as "Could not authenticate with Petfinder."
\* and leaves runHourlyRefresh.
RefToken ==
    /\ rPc = "token"
    /\ IF token # 0
       THEN /\ rPc' = "select"
            /\ UNCHANGED <<token, exchanges, apiCount, apiTtl, executed, animalsToAudit,
                           results, animalData, totalProcessed, attempt>>
       ELSE IF LimitReached(apiCount[today])
       THEN /\ RefThrown
            /\ UNCHANGED <<token, exchanges, apiCount, apiTtl, executed>>
       ELSE /\ exchanges' = exchanges + 1
            /\ executed' = [executed EXCEPT ![today] = @ + 1]
            /\ \/ /\ token' = exchanges + 1
                  /\ apiCount' = [apiCount EXCEPT ![today] = @ + 1]
                  /\ apiTtl' = IF apiCount[today] + 1 = 1
                               THEN [apiTtl EXCEPT ![today] = TRUE]
                               ELSE apiTtl
                  /\ rPc' = "select"
                  /\ UNCHANGED <<animalsToAudit, results, animalData, totalProcessed,
                                 attempt>>
               \/ /\ RefThrown
                  /\ UNCHANGED <<token, apiCount, apiTtl>>
    /\ UNCHANGED <<today, gPc, dailyKey, currentCount, newCount, gResult, started,
                   tokLock, variant, tPc, access_token, tResult, cachedAtLock,
                   envVars, dbVars, scanVars, refAt, deepVars, janVars, appVars>>

\* The worker's process dies while the job is under way (for one, while
\* the transaction is open, which the store then rolls back); the process
\* manager starts the worker again and cron waits for the next hour.
RefCrash ==
    /\ UNCHANGED notSweepVars
    /\ rPc # "idle"
    /\ RefDone
    /\ UNCHANGED <<now, upAdded, upRev, dbVars, apiCount, executed, lastScanTime,
                   upChanged, upEvents, refAt, deepVars, janVars>>

\* cron fires the deep refresh, at the top of one hour of the day.
DeepStart ==
    /\ UNCHANGED notSweepVars
    /\ dPc = "idle"
    /\ OnTheHour
    /\ deepAt = 0 \/ now >= deepAt + Hours(24)
    /\ deepAt' = now
    /\ dStartTime' = now
    /\ dPc' = "prune"
    /\ UNCHANGED <<now, upAdded, upRev, dbVars, apiCount, executed, lastScanTime,
                   upChanged, upEvents, refVars, dHub, atRiskAnimals, dOutcome, dBody,
                   janVars>>

\* deep-refresh-worker.js pruneStaleAnimals: deleteMany of the rows last
\* seen before the cutoff, then of the organizations left without animals.
DeepPrune ==
    /\ UNCHANGED notSweepVars
    /\ dPc = "prune"
    /\ rows' = {r \in rows : ~StaleBefore(r, pruneCutoffDate)}
    /\ orgs' = {o \in orgs : \E r \in rows' : r.organizationId = o}
    /\ pruned' = pruned \cup (Ids(rows) \ Ids(rows'))
    /\ dPc' = "broad"
    /\ dHub' = 1
    /\ UNCHANGED <<now, upAdded, upRev, apiCount, executed, lastScanTime, upChanged,
                   upEvents, refVars, atRiskAnimals, dOutcome, dBody, dStartTime,
                   deepAt, janitorAt>>

\* Phase 1, one hub: the rows of the ids on the hub's recent pages get a
\* new lastSeenAt; a failure of the hub's calls is caught and the hub skipped.
DeepBroad ==
    /\ UNCHANGED notSweepVars
    /\ dPc = "broad"
    /\ dHub <= NumHubs
    /\ \E failed \in BOOLEAN :
          rows' = IF failed
                  THEN rows
                  ELSE {IF r.id \in PageOf(dHub) THEN Touched(r) ELSE r : r \in rows}
    /\ dHub' = dHub + 1
    /\ UNCHANGED <<now, upAdded, upRev, orgs, apiCount, executed, lastScanTime,
                   upChanged, upEvents, refVars, dPc, atRiskAnimals, dOutcome, dBody,
                   dStartTime, deepAt, janVars>>

\* Phase 2 begins: the rows last seen between 25 and 23 hours ago are selected.
DeepSelect ==
    /\ UNCHANGED notSweepVars
    /\ dPc = "broad"
    /\ dHub > NumHubs
    /\ LET atRisk == {r \in rows : /\ StaleBefore(r, twentyThreeHoursAgo)
                                   /\ r.lastSeenAt >= twentyFiveHoursAgo}
       IN /\ atRiskAnimals' = SeqOf(Ids(atRisk))
          /\ dPc' = IF atRisk = {} THEN "end" ELSE "fetch"
    /\ UNCHANGED <<now, upAdded, upRev, dbVars, apiCount, executed, lastScanTime,
                   upChanged, upEvents, refVars, dHub, dOutcome, dBody, dStartTime,
                   deepAt, janVars>>

\* The detail call of the next at-risk animal ends.
DeepFetch ==
    /\ UNCHANGED notSweepVars
    /\ dPc = "fetch"
    /\ \E failed \in BOOLEAN :
          LET outcome == IF failed THEN "error" ELSE DetailStatus(Head(atRiskAnimals)) IN
          /\ dOutcome' = outcome
          /\ dBody' = IF outcome = "ok" THEN upRev[Head(atRiskAnimals)] ELSE 0
    /\ dPc' = "apply"
    /\ UNCHANGED <<now, upAdded, upRev, dbVars, apiCount, executed, lastScanTime,
                   upChanged, upEvents, refVars, dHub, atRiskAnimals, dStartTime,
                   deepAt, janVars>>

\* After a successful call the row's lastSeenAt is written (lines 454-457);
\* after a 404 or another error a message is logged (lines 459-470).  An
\* update of a row that is no longer there throws and is caught likewise.
DeepApply ==
    /\ UNCHANGED notSweepVars
    /\ dPc = "apply"
    /\ LET a == Head(atRiskAnimals) IN
         rows' = IF dOutcome = "ok"
                 THEN {IF r.id = a THEN Touched(r) ELSE r : r \in rows}
                 ELSE rows
    /\ atRiskAnimals' = Tail(atRiskAnimals)
    /\ dOutcome' = "none"
    /\ dBody' = 0
    /\ dPc' = IF Tail(atRiskAnimals) = <<>> THEN "end" ELSE "fetch"
    /\ UNCHANGED <<now, upAdded, upRev, orgs, apiCount, executed, lastScanTime,
                   upChanged, upEvents, refVars, dHub, dStartTime, deepAt, janVars>>

\* The run's start time is stored as the scan timestamp.
DeepEnd ==
    /\ UNCHANGED notSweepVars
    /\ dPc = "end"
    /\ lastScanTime' = dStartTime
    /\ dPc' = "idle"
    /\ dHub' = 0
    /\ dStartTime' = 0
    /\ UNCHANGED <<now, upAdded, upRev, dbVars, apiCount, executed, upChanged,
                   upEvents, refVars, atRiskAnimals, dOutcome, dBody, deepAt,
                   janVars>>

\* Upstream: a listing is removed (adopted or withdrawn).
UpRemove(a) ==
    /\ UNCHANGED notSweepVars
    /\ upAdded[a] # 0
    /\ upAdded' = [upAdded EXCEPT ![a] = 0]
    /\ upEvents < MaxUpEvents
    /\ upEvents' = upEvents + 1
    /\ upChanged' = TRUE
    /\ UNCHANGED <<now, upRev, dbVars, apiCount, executed, lastScanTime, refVars,
                   deepVars, janVars>>

\* Upstream: the body of a listing is edited.
UpEdit(a) ==
    /\ UNCHANGED notSweepVars
    /\ upAdded[a] # 0
    /\ upRev' = [upRev EXCEPT ![a] = @ + 1]
    /\ upEvents < MaxUpEvents
    /\ upEvents' = upEvents + 1
    /\ upChanged' = TRUE
    /\ UNCHANGED <<now, upAdded, dbVars, apiCount, executed, lastScanTime, refVars,
                   deepVars, janVars>>

SweepNext ==
    \/ Tick
    \/ Janitor
    \/ RefStart
    \/ RefSelect
    \/ RefSettle
    \/ RefCommit
    \/ DeepStart
    \/ DeepPrune
    \/ DeepBroad
    \/ DeepSelect
    \/ DeepFetch
    \/ DeepApply
    \/ DeepEnd
    \/ \E a \in AnimalIds : UpRemove(a)
    \/ \E a \in AnimalIds : UpEdit(a)

-----------------------------------------------------------------------------
(*                                 CLEANUP                                 *)
(* runCleanup of discovery-worker.js: groups the table by name and type,   *)
(* buckets each group by normalizeBreed(breeds) and keeps the lowest id of *)
(* every bucket.  Strings are drawn from a small alphabet; toLowerCase and *)
(* the order of Array.prototype.sort are tabulated for that alphabet.      *)

NumRecords == 3
RecordIds == 1..NumRecords

\* String.prototype.toLowerCase over the alphabet of the model.
toLowerCase(s) ==
    CASE s = "Lab" -> "lab"
      [] s = "Mix" -> "mix"
      [] s = "Pug" -> "pug"
      [] OTHER -> s

\* Position of a lower-case string in the code-unit order sort() uses.
CodeUnitRank(s) ==
    CASE s = "lab" -> 1
      [] s = "mix" -> 2
      [] s = "primary" -> 3
      [] s = "pug" -> 4
      [] s = "secondary" -> 5
      [] OTHER -> 6

\* sort() without a comparator orders the [key, value] entries by their
\* string form "key,value".
EntryBefore(p, q) ==
    \/ CodeUnitRank(p[1]) < CodeUnitRank(q[1])
    \/ p[1] = q[1] /\ CodeUnitRank(p[2]) < CodeUnitRank(q[2])

RECURSIVE SortEntries(_)
SortEntries(es) ==
    IF Len(es) <= 1 THEN es
    ELSE LET i == CHOOSE k \in 1..Len(es) :
                    \A m \in 1..Len(es) : m = k \/ ~EntryBefore(es[m], es[k])
             rest == [m \in 1..(Len(es) - 1) |-> IF m < i THEN es[m] ELSE es[m + 1]]
         IN  <<es[i]>> \o SortEntries(rest)

LowerEntries(es) ==
    [i \in 1..Len(es) |-> <<toLowerCase(es[i][1]), toLowerCase(es[i][2])>>]

\* A breeds column is null or a JSON object, whose entries come in the
\* order the document lists them.
NullBreeds == [isNull |-> TRUE, entries |-> <<>>]
Breeds(es) == [isNull |-> FALSE, entries |-> es]

\* The key of a bucket: "" for a null column, else the JSON text of the
\* lower-cased, sorted entries.
normalizeBreedUnsorted(breeds) ==
    IF breeds.isNull THEN [json |-> FALSE, entries |-> <<>>]
    ELSE [json |-> TRUE, entries |-> LowerEntries(breeds.entries)]
normalizeBreed(breeds) ==
    IF breeds.isNull THEN [json |-> FALSE, entries |-> <<>>]
    ELSE [json |-> TRUE, entries |-> SortEntries(LowerEntries(breeds.entries))]

\* The columns a row of the model's store carries besides name, type, breeds.
StoredRow(a) == [id |-> a, lastSeenAt |-> 0, rev |-> 1, organizationId |-> 0]

BreedInputs ==
    { Breeds(<< <<"primary", "Lab">>, <<"secondary", "Mix">> >>),
      Breeds(<< <<"secondary", "mix">>, <<"primary", "lab">> >>),
      Breeds(<< <<"primary", "Mix">>, <<"secondary", "Lab">> >>),
      NullBreeds }
ProfileInputs == [name : {"Rex", "rex"}, type : {"Dog", "Cat"}, breeds : BreedInputs]
DefaultProfile == [name |-> "Rex", type |-> "Dog", breeds |-> NullBreeds]

CleanIdle ==
    /\ profile = [a \in RecordIds |-> DefaultProfile]
    /\ cPc = "idle"
    /\ potentialDupes = {}
    /\ preRows = {}

CleanInit ==
    /\ profile \in [RecordIds -> ProfileInputs]
    /\ rows = {StoredRow(a) : a \in RecordIds}
    /\ cPc = "idle"
    /\ potentialDupes = {}
    /\ preRows = {}

notCleanVars == <<govVars, tokVars, envVars, orgs, scanVars, refVars, deepVars,
                  janVars, profile, feedVars, userVars>>

\* groupBy({by: ["name", "type"]}) filtered to the groups counting more
\* than one row (lines 332-337).
GroupBy(rws) ==
    { g \in [name : {profile[r.id].name : r \in rws},
             type : {profile[r.id].type : r \in rws}] :
        Cardinality({r \in rws : /\ profile[r.id].name = g.name
                                  /\ profile[r.id].type = g.type}) > 1 }

\* findMany({where: {name, type}}) (lines 351-354).
RecordsOf(rws, g) ==
    {r \in rws : profile[r.id].name = g.name /\ profile[r.id].type = g.type}

\* The ids lines 357-371 collect for deletion: in every bucket of more than
\* one record, all but the lowest id.
RemoveIds(records) ==
    { r.id : r \in { x \in records :
        \E y \in records :
            /\ normalizeBreed(profile[y.id].breeds) = normalizeBreed(profile[x.id].breeds)
            /\ y.id < x.id } }

CleanupStart ==
    /\ UNCHANGED notCleanVars
    /\ cPc = "idle"
    /\ preRows' = rows
    /\ potentialDupes' = GroupBy(rows)
    /\ cPc' = IF GroupBy(rows) = {} THEN "done" ELSE "groups"
    /\ rows' = rows

\* One iteration of the loop of line 350.
CleanupGroup ==
    /\ UNCHANGED notCleanVars
    /\ cPc = "groups"
    /\ potentialDupes # {}
    /\ \E g \in potentialDupes :
          /\ rows' = {r \in rows : r.id \notin RemoveIds(RecordsOf(rows, g))}
          /\ potentialDupes' = potentialDupes \ {g}
    /\ UNCHANGED <<cPc, preRows>>

CleanupEnd ==
    /\ UNCHANGED notCleanVars
    /\ cPc = "groups"
    /\ potentialDupes = {}
    /\ cPc' = "done"
    /\ UNCHANGED <<rows, potentialDupes, preRows>>

\* A query throws: the catch of line 394 logs it and the run is over.
CleanupError ==
    /\ UNCHANGED notCleanVars
    /\ cPc = "groups"
    /\ cPc' = "failed"
    /\ UNCHANGED <<rows, potentialDupes, preRows>>

CleanNext ==
    \/ CleanupStart
    \/ CleanupGroup
    \/ CleanupEnd
    \/ CleanupError

-----------------------------------------------------------------------------
(*                          FEED AND SESSION CACHE                         *)
(* The handler of api/videos.js: a request with a sessionId pages through  *)
(* the id list stored for the session; a request without one geocodes the  *)
(* location, assembles the tiered list and stores it under a fresh id.     *)
(* Coordinates are points of one meridian, measured in km from its start,  *)
(* where the great-circle distance of line 136 is the difference of the    *)
(* positions.                                                              *)

\* PAGE_SIZE (10) and LIMIT (50) of the source, scaled to the model's table.
PAGE_SIZE == 2
HyperLocalLimit == 2
MaxFeedDeletes == 1

REGIONAL_LIMIT == 150
NATIONWIDE_LIMIT == 200
SESSION_TTL_HOURS == 2

\* The ids handed out to new sessions, and the ids a request can carry:
\* those and one that is never stored.
SessionIds == {1, 2}
RequestIds == SessionIds \cup {3}
\* The pages a request can ask for; the last is beyond every list.
Pages == 1..NumRecords
Positions == {10, 30, 40, 100, 200}
Origins == {0, 20}

\* 30 and 100 miles in units of 1/100000 km (lines 131-132).
hyperLocalRadiusKm == 30 * 160934
regionalRadiusKm == 100 * 160934

Distance(a) == IF origin >= pos[a] THEN origin - pos[a] ELSE pos[a] - origin
Within(a, radius) == Distance(a) * 100000 < radius

\* The order ORDER BY ... ASC puts two distances in; before it, the order
\* of DESC, a faulty variant under which C14 must fail.
Descending(d1, d2) == d1 >= d2
Ascending(d1, d2) == d1 <= d2

\* All the orders a result set can be returned in.
Perms(S) ==
    {p \in [1..Cardinality(S) -> S] : \A i, j \in 1..Cardinality(S) : p[i] = p[j] => i = j}

\* The rows of the hyper-local query (lines 134-144): within the radius and
\* not seen, by ascending distance, rows of equal distance in any order,
\* cut at the limit.
HyperLocalResults ==
    LET S == {a \in Ids(rows) : Within(a, hyperLocalRadiusKm) /\ a \notin seenVideoIds}
    IN  {Take(p, HyperLocalLimit) :
           p \in {q \in Perms(S) : \A i, j \in 1..Cardinality(S) :
                                      i < j => Ascending(Distance(q[i]), Distance(q[j]))}}

\* A regional query without the NOT IN of line 153, a faulty variant under
\* which C33 must fail.
RegionalResultsNotExcluding(hyper) ==
    LET S == {a \in Ids(rows) : Within(a, regionalRadiusKm)}
    IN  {Take(p, REGIONAL_LIMIT) : p \in Perms(S)}

\* The rows of the regional query (lines 147-158): ORDER BY RANDOM().
RegionalResults(hyper) ==
    LET S == {a \in Ids(rows) : /\ Within(a, regionalRadiusKm)
                                /\ a \notin (seenVideoIds \cup Range(hyper))}
    IN  {Take(p, REGIONAL_LIMIT) : p \in Perms(S)}

\* The shuffled rest of the table (lines 161-176).
NationwideResults(found) ==
    LET S == {a \in Ids(rows) : a \notin (seenVideoIds \cup found)}
    IN  {Take(p, NATIONWIDE_LIMIT) : p \in Perms(S)}

\* Math.ceil(n / s) and Array.prototype.slice((page - 1) * s, page * s).
Ceil(n, s) == (n + s - 1) \div s
SliceNextPage(L, page, s) == SubSeq(L, page * s + 1, IF (page + 1) * s < Len(L) THEN (page + 1) * s ELSE Len(L))
\* A negative index of slice counts from the end of the array, and an index
\* beyond either end is clamped to it.
Slice(L, page, s) ==
    LET Index(k) == IF k < 0
                    THEN (IF Len(L) + k < 0 THEN 0 ELSE Len(L) + k)
                    ELSE (IF k > Len(L) THEN Len(L) ELSE k)
    IN  SubSeq(L, Index((page - 1) * s) + 1, Index(page * s))

\* The rows findMany returns for the page, put in the order of the page;
\* an id whose row is gone is dropped (lines 90-92, 199-201).
\* Before it, the rows in an order of the store's choosing (here the page's
\* order reversed), which is what findMany alone gives; C30 must fail
\* under it.
orderedAnimalsAsFound(pageIds) ==
    LET kept == SelectSeq(pageIds, LAMBDA id : id \in Ids(rows))
    IN  [i \in 1..Len(kept) |-> kept[Len(kept) + 1 - i]]
orderedAnimals(pageIds) == SelectSeq(pageIds, LAMBDA id : id \in Ids(rows))

\* redis GET of a key set with EX: absent once the time to live has passed.
NeverExpires(s, t) == sessionSetAt[s] >= 0
Live(s, t) == sessionSetAt[s] >= 0 /\ t < sessionSetAt[s] + Hours(SESSION_TTL_HOURS)

NoResponse ==
    [kind |-> "none", sessionId |-> 0, page |-> 0, at |-> 0, geo |-> "none",
     status |-> 0, animals |-> <<>>, totalPages |-> 0]

FeedIdle ==
    /\ pos = [a \in RecordIds |-> 10]
    /\ origin = 0
    /\ seenVideoIds = {}
    /\ geocoder = "ok"
    /\ coordsCached = FALSE
    /\ sessionList = [s \in RequestIds |-> <<>>]
    /\ sessionSetAt = [s \in RequestIds |-> -1]
    /\ nextSession = 1
    /\ hyperLocalIds = <<>>
    /\ regionalIds = <<>>
    /\ nationwideIds = <<>>
    /\ resp = NoResponse

\* A table of records at the hubs' coordinates, a user with or without seen
\* videos, and no session yet.
FeedInit ==
    /\ pos \in [RecordIds -> Positions]
    /\ origin \in Origins
    /\ seenVideoIds \in {{}, {1}}
    /\ geocoder \in {"ok", "empty", "fail"}
    /\ coordsCached = FALSE
    /\ rows = {StoredRow(a) : a \in RecordIds}
    /\ sessionList = [s \in RequestIds |-> <<>>]
    /\ sessionSetAt = [s \in RequestIds |-> -1]
    /\ nextSession = 1
    /\ hyperLocalIds = <<>>
    /\ regionalIds = <<>>
    /\ nationwideIds = <<>>
    /\ resp = NoResponse

\* One table and one user, for the lifetime of the sessions: the last two
\* records far from the user, the others near, at different distances.
SessionInit ==
    /\ pos = [a \in RecordIds |-> IF a > NumRecords - 2 THEN 200
                                  ELSE IF a = 1 THEN 10 ELSE 30]
    /\ origin = 0
    /\ seenVideoIds = {}
    /\ geocoder = "ok"
    /\ coordsCached = FALSE
    /\ rows = {StoredRow(a) : a \in RecordIds}
    /\ sessionList = [s \in RequestIds |-> <<>>]
    /\ sessionSetAt = [s \in RequestIds |-> -1]
    /\ nextSession = 1
    /\ hyperLocalIds = <<>>
    /\ regionalIds = <<>>
    /\ nationwideIds = <<>>
    /\ resp = NoResponse

\* What the assembly of a session leaves alone outside the feed's own state,
\* and what the feed's requests leave alone when the user's row exists.
notSessionVars == <<govVars, tokVars, upAdded, upRev, hubDown, orgDown, orgs,
                    scanVars, refVars, deepVars, janVars, cleanVars, pos, origin,
                    seenVideoIds>>
notFeedVars == <<notSessionVars, userVars>>

\* The requests in flight that carry the same client UUID.
UserRequests == {1, 2}

\* The user's row exists and no request is in flight.
UserIdle ==
    /\ userRows = 1
    /\ uKind = [q \in UserRequests |-> "session"]
    /\ uPc = [q \in UserRequests |-> "done"]
    /\ uStatus = [q \in UserRequests |-> 200]

\* Two requests of either kind arrive with one UUID, known or not yet known.
UserInit ==
    /\ userRows \in {0, 1}
    /\ uKind \in [UserRequests -> {"session", "seen"}]
    /\ uPc = [q \in UserRequests |-> "find"]
    /\ uStatus = [q \in UserRequests |-> 0]

\* How getUserCoordinates ends (lines 24-52): a cache hit, a geocoded
\* result, null for no results, or the exception of the geocoding call.
GeoOutcome == IF coordsCached THEN "hit" ELSE geocoder

Response(kind, sid, page, geo, status, animals, totalPages) ==
    [kind |-> kind, sessionId |-> sid, page |-> page, at |-> now, geo |-> geo,
     status |-> status, animals |-> animals, totalPages |-> totalPages]

\* PATH 1 (lines 69-101): page `page` of session `sid`.
GetPage(sid, page) ==
    /\ UNCHANGED notFeedVars
    /\ resp' = IF ~Live(sid, now)
               THEN Response("page", sid, page, "none", 404, <<>>, 0)
               ELSE Response("page", sid, page, "none", 200,
                             orderedAnimals(Slice(sessionList[sid], page, PAGE_SIZE)),
                             Ceil(Len(sessionList[sid]), PAGE_SIZE))
    /\ UNCHANGED <<now, rows, geocoder, coordsCached, sessionList, sessionSetAt,
                   nextSession, hyperLocalIds, regionalIds, nationwideIds>>

\* PATH 2 (lines 103-209): a new session, the user's row being at hand.
AssembleSession ==
    /\ UNCHANGED notSessionVars
    /\ nextSession \in SessionIds
    /\ CASE GeoOutcome = "fail" ->
              \* the exception reaches the catch of line 206
              /\ resp' = Response("create", 0, 1, "fail", 500, <<>>, 0)
              /\ UNCHANGED <<coordsCached, sessionList, sessionSetAt, nextSession,
                             hyperLocalIds, regionalIds, nationwideIds>>
         [] GeoOutcome = "empty" ->
              /\ resp' = Response("create", 0, 1, "empty", 200, <<>>, 0)
              /\ UNCHANGED <<coordsCached, sessionList, sessionSetAt, nextSession,
                             hyperLocalIds, regionalIds, nationwideIds>>
         [] OTHER ->
              \E hyper \in HyperLocalResults :
              \E regional \in RegionalResults(hyper) :
              \E nationwide \in NationwideResults(Range(hyper) \cup Range(regional)) :
                 LET finalPlaylist == hyper \o regional \o nationwide
                 IN  /\ coordsCached' = TRUE
                     /\ hyperLocalIds' = hyper
                     /\ regionalIds' = regional
                     /\ nationwideIds' = nationwide
                     /\ sessionList' = [sessionList EXCEPT ![nextSession] = finalPlaylist]
                     /\ sessionSetAt' = [sessionSetAt EXCEPT ![nextSession] = now]
                     /\ nextSession' = nextSession + 1
                     /\ resp' = Response("create", nextSession, 1, GeoOutcome, 200,
                                         orderedAnimals(Slice(finalPlaylist, 1, PAGE_SIZE)),
                                         Ceil(Len(finalPlaylist), PAGE_SIZE))
    /\ UNCHANGED <<now, rows, geocoder>>

\* The copy of the handler kept in api/animal/[id]/like.js (lines 112-246):
\* its request carries no userId, its getUserCoordinates throws when the
\* geocoder finds nothing (lines 100-102), and its tier queries exclude no
\* seen id (lines 171-197).  The regional query interpolates
\* Prisma.join(hyperLocalIds) unconditionally (line 183), which fails for an
\* empty hyper-local tier; every failure ends in the catch of line 242.
CreateSessionNoUser ==
    /\ UNCHANGED notFeedVars
    /\ nextSession \in SessionIds
    /\ IF GeoOutcome \in {"fail", "empty"}
       THEN /\ resp' = Response("create", 0, 1, GeoOutcome, 500, <<>>, 0)
            /\ UNCHANGED <<coordsCached, sessionList, sessionSetAt, nextSession,
                           hyperLocalIds, regionalIds, nationwideIds>>
       ELSE LET near == {a \in Ids(rows) : Within(a, hyperLocalRadiusKm)}
                closest == {q \in Perms(near) : \A i, j \in 1..Cardinality(near) :
                               i < j => Ascending(Distance(q[i]), Distance(q[j]))}
            IN  \E hyper \in {Take(p, HyperLocalLimit) : p \in closest} :
                  /\ coordsCached' = TRUE
                  /\ IF hyper = <<>>
                     THEN /\ resp' = Response("create", 0, 1, GeoOutcome, 500, <<>>, 0)
                          /\ UNCHANGED <<sessionList, sessionSetAt, nextSession,
                                         hyperLocalIds, regionalIds, nationwideIds>>
                     ELSE LET around == {a \in Ids(rows) : /\ Within(a, regionalRadiusKm)
                                                           /\ a \notin Range(hyper)}
                          IN  \E regional \in {Take(p, REGIONAL_LIMIT) : p \in Perms(around)} :
                              LET rest == {a \in Ids(rows) :
                                             a \notin Range(hyper) \cup Range(regional)}
                              IN  \E nationwide \in {Take(p, NATIONWIDE_LIMIT) : p \in Perms(rest)} :
                                  LET finalPlaylist == hyper \o regional \o nationwide
                                  IN  /\ hyperLocalIds' = hyper
                                      /\ regionalIds' = regional
                                      /\ nationwideIds' = nationwide
                                      /\ sessionList' = [sessionList EXCEPT
                                                           ![nextSession] = finalPlaylist]
                                      /\ sessionSetAt' = [sessionSetAt EXCEPT
                                                            ![nextSession] = now]
                                      /\ nextSession' = nextSession + 1
                                      /\ resp' = Response("create", nextSession, 1, GeoOutcome,
                                                          200,
                                                          orderedAnimals(Slice(finalPlaylist, 1,
                                                                               PAGE_SIZE)),
                                                          Ceil(Len(finalPlaylist), PAGE_SIZE))
    /\ UNCHANGED <<now, rows, geocoder>>

\* PATH 2 for a user whose row exists: findUnique of line 120 finds it.
CreateSession == AssembleSession /\ UNCHANGED userVars

\* api/seen.js, lines 42-58: one SeenVideo row per animal id is inserted, the
\* ids that are marked already being skipped (createMany with skipDuplicates,
\* lines 50-53).
InsertSeen(animalIds) ==
    /\ animalIds # {}
    /\ seenVideoIds' = seenVideoIds \cup animalIds
    /\ UNCHANGED <<govVars, tokVars, envVars, dbVars, scanVars, refVars, deepVars,
                   janVars, cleanVars, pos, origin, geocoder, coordsCached,
                   sessionList, sessionSetAt, nextSession, hyperLocalIds, regionalIds,
                   nationwideIds, resp>>

\* api/seen.js for a user whose row exists: findUnique of lines 32-34 finds it.
MarkSeen(animalIds) == InsertSeen(animalIds) /\ UNCHANGED userVars

notUserVars == <<govVars, tokVars, envVars, dbVars, scanVars, refVars, deepVars,
                 janVars, cleanVars, feedVars>>

\* prisma.user.findUnique({where: {uuid: userId}}) of request q (videos.js
\* line 120, seen.js lines 32-34): the row, or null when there is none yet.
UserFind(q) ==
    /\ uPc[q] = "find"
    /\ uPc' = [uPc EXCEPT ![q] = IF userRows = 0 THEN "create" ELSE "known"]
    /\ UNCHANGED <<userRows, uKind, uStatus, notUserVars>>

\* prisma.user.create({data: {uuid: userId}}) of request q (videos.js lines
\* 121-123, seen.js lines 36-40). The unique index users_uuid_key rejects a
\* second row with the UUID: the call throws, the handler's catch answers 500
\* (videos.js lines 206-209, seen.js lines 59-62).
UserCreate(q) ==
    /\ uPc[q] = "create"
    /\ IF userRows = 0
       THEN /\ userRows' = 1
            /\ uPc' = [uPc EXCEPT ![q] = "known"]
            /\ UNCHANGED uStatus
       ELSE /\ uPc' = [uPc EXCEPT ![q] = "done"]
            /\ uStatus' = [uStatus EXCEPT ![q] = 500]
            /\ UNCHANGED userRows
    /\ UNCHANGED <<uKind, notUserVars>>

\* The rest of the handler of request q, which holds the user's row: the
\* session is assembled (videos.js lines 125-205) or the seen rows are
\* inserted (seen.js lines 42-58), and the response is sent.
UserServe(q) ==
    /\ uPc[q] = "known"
    /\ IF uKind[q] = "session"
       THEN /\ AssembleSession
            /\ uStatus' = [uStatus EXCEPT ![q] = resp'.status]
       ELSE /\ \E animalIds \in SUBSET RecordIds : InsertSeen(animalIds)
            /\ uStatus' = [uStatus EXCEPT ![q] = 200]
    /\ uPc' = [uPc EXCEPT ![q] = "done"]
    /\ UNCHANGED <<userRows, uKind>>

\* The geocoding service changes between answering, finding nothing and failing.
GeoFlip(g) ==
    /\ UNCHANGED notFeedVars
    /\ geocoder # g
    /\ geocoder' = g
    /\ UNCHANGED <<now, rows, coordsCached, sessionList, sessionSetAt, nextSession,
                   hyperLocalIds, regionalIds, nationwideIds, resp>>

\* A synchronisation job deletes a record while sessions are open.
FeedDelete(a) ==
    /\ UNCHANGED notFeedVars
    /\ a \in Ids(rows)
    /\ Cardinality(rows) > NumRecords - MaxFeedDeletes
    /\ rows' = {r \in rows : r.id # a}
    /\ UNCHANGED <<now, geocoder, coordsCached, sessionList, sessionSetAt,
                   nextSession, hyperLocalIds, regionalIds, nationwideIds, resp>>

\* A synchronisation job stores a record again that had been deleted.
FeedRestore(a) ==
    /\ UNCHANGED notFeedVars
    /\ a \in RecordIds \ Ids(rows)
    /\ rows' = rows \cup {StoredRow(a)}
    /\ UNCHANGED <<now, geocoder, coordsCached, sessionList, sessionSetAt,
                   nextSession, hyperLocalIds, regionalIds, nationwideIds, resp>>

FeedMaxNow == Hours(SESSION_TTL_HOURS + 1)

\* An hour passes.
FeedTick ==
    /\ UNCHANGED notFeedVars
    /\ now < FeedMaxNow
    /\ now' = now + Hours(1)
    /\ UNCHANGED <<rows, geocoder, coordsCached, sessionList, sessionSetAt,
                   nextSession, hyperLocalIds, regionalIds, nationwideIds, resp>>

\* Session creations over one table, with a geocoder that comes and goes.
AssembleNext ==
    \/ CreateSession
    \/ \E g \in {"ok", "empty", "fail"} : GeoFlip(g)

\* Sessions being created, read and left to expire while records are deleted.
SessionNext ==
    \/ CreateSession
    \/ \E sid \in RequestIds, page \in Pages : GetPage(sid, page)
    \/ \E a \in RecordIds : FeedDelete(a)
    \/ FeedTick

\* Sessions being created and read while synchronisation jobs delete
\* records and store them again, within the sessions' time to live.
StableNext ==
    \/ CreateSession
    \/ \E sid \in RequestIds, page \in Pages : GetPage(sid, page)
    \/ \E a \in RecordIds : FeedDelete(a)
    \/ \E a \in RecordIds : FeedRestore(a)

\* Sessions being created, by the handler and by its copy, while the user's
\* client reports animals as seen.
MarksNext ==
    \/ CreateSession
    \/ CreateSessionNoUser
    \/ \E animalIds \in SUBSET RecordIds : MarkSeen(animalIds)

\* Each await of a handler is a point where the other request can run.
UsersNext ==
    \/ \E q \in UserRequests : UserFind(q)
    \/ \E q \in UserRequests : UserCreate(q)
    \/ \E q \in UserRequests : UserServe(q)

\* The page numbers a request body can carry: those of the pages, zero,
\* negative numbers and numbers beyond the last page.
AnyPages == (0 - NumRecords)..(NumRecords + 1)

\* Sessions being created and read with any page number, over a table that
\* stays as it is.
PagingNext ==
    \/ CreateSession
    \/ \E sid \in RequestIds, page \in AnyPages : GetPage(sid, page)

\* Everything outside the synchronisation jobs at rest.
AppOff == CleanIdle /\ FeedIdle /\ UserIdle

-----------------------------------------------------------------------------
(*                              SPECIFICATIONS                             *)

\* The clock, upstream and store at rest.
WorldOff ==
    /\ now = 0
    /\ upAdded = [a \in AnimalIds |-> 0]
    /\ upRev = [a \in AnimalIds |-> 1]
    /\ hubDown = {}
    /\ orgDown = {}
    /\ rows = {}
    /\ orgs = {}
    /\ lastScanTime = 0
    /\ janitorAt = 0
    /\ SweepIdle


\* The token manager at rest, for the specifications of other components.
TokOff ==
    /\ TokIdle
    /\ variant = [c \in Callers |-> "refresh"]

\* Concurrent callers of makeApiCallWithCount.
InitGov == GovInit /\ TokOff /\ WorldOff /\ ScanIdle /\ AppOff
SpecGov == InitGov /\ [][GovNext]_vars

\* Sequential callers of makeApiCallWithCount whose requests are answered.
InitGovSeq == GovInit /\ TokOff /\ WorldOff /\ ScanIdle /\ AppOff
SpecGovSeq == InitGovSeq /\ [][GovSeqNext]_vars

\* K concurrent callers of getValidToken, any mix of workers.
InitTok == GovNearLimit /\ TokInit /\ WorldOff /\ ScanIdle /\ AppOff
SpecTok == InitTok /\ [][TokNext]_vars

\* K concurrent callers, all of workers whose getValidToken takes the lock.
InitTokLock == GovNearLimit /\ TokInitLock /\ WorldOff /\ ScanIdle /\ AppOff
SpecTokLock == InitTokLock /\ [][TokNext]_vars

\* The same callers, any of which may die while it holds the lock, with
\* running invocations that keep running.
InitTokLive == GovNearLimit /\ TokInitLive /\ WorldOff /\ ScanIdle /\ AppOff
SpecTokLive == InitTokLive /\ [][TokLiveNext]_vars /\ TokFairness

\* Runs of Discovery and Quick-Scan, one at a time, against a changing upstream.
InitScan == ScanInit /\ TokOff /\ SweepIdle /\ janitorAt = 0 /\ AppOff
SpecScan == InitScan /\ [][ScanNext]_vars

\* Runs of Discovery and Quick-Scan while listings are added, where Quick-Scan's
\* read or write of the scan timestamp may be rejected by the key-value store.
ScanFatalNext ==
    \/ ScanStartDiscovery
    \/ ScanStartQuick
    \/ ScanHub
    \/ ScanOrg
    \/ ScanAnimal
    \/ ScanEnd
    \/ ScanReturn
    \/ ScanReadFails
    \/ ScanWriteFails
    \/ \E a \in AnimalIds : UpAdd(a)
InitScanFatal == ScanInit /\ TokOff /\ SweepIdle /\ janitorAt = 0 /\ AppOff
SpecScanFatal == InitScanFatal /\ [][ScanFatalNext]_vars

\* The jobs that write records and the scan timestamp, each fired by its own
\* cron entry in its own process, so that a run of one job overlaps runs of
\* another: Discovery and Quick-Scan runs while a deep refresh prunes, touches
\* the hubs' recent records and stores its start time.
WritersNext ==
    \/ ScanStartDiscovery
    \/ ScanStartQuick
    \/ ScanHub
    \/ ScanOrg
    \/ ScanAnimal
    \/ ScanEnd
    \/ DeepStart
    \/ DeepPrune
    \/ DeepBroad
    \/ DeepSelect
    \/ DeepEnd
    \/ \E a \in AnimalIds : UpAdd(a)
\* They start from a store that holds a scan timestamp, with every hub
\* answering and a fresh daily budget.
InitWriters ==
    /\ ScanInit /\ TokOff /\ SweepIdle /\ janitorAt = 0 /\ AppOff
    /\ lastScanTime = InitScanTime
    /\ hubDown = {}
    /\ apiCount[today] = 0
SpecWriters == InitWriters /\ [][WritersNext]_vars

\* The hourly refresh job under withRetry, from its credential exchange on,
\* with the Janitor on its schedule and an upstream that changes.
RetryNext ==
    \/ Tick
    \/ Janitor
    \/ RefStartAuth
    \/ RefToken
    \/ RefSelect
    \/ RefSettle
    \/ RefCommit
    \/ RefCrash
    \/ \E a \in AnimalIds : UpRemove(a)
    \/ \E a \in AnimalIds : UpEdit(a)
InitRetry == SweepInit /\ TokOff /\ ScanIdle /\ AppOff
SpecRetry == InitRetry /\ [][RetryNext]_vars

\* The Janitor, the hourly refresh and the deep refresh, each on its
\* schedule, over a store whose rows grow old and an upstream that changes.
InitSweep == SweepInit /\ TokOff /\ ScanIdle /\ AppOff
SpecSweep == InitSweep /\ [][SweepNext]_vars

\* One Cleanup run over a table of records with any names, types and breeds.
InitCleanup ==
    /\ CleanInit /\ FeedIdle /\ UserIdle
    /\ GovNearLimit /\ apiCount[0] = API_DAILY_LIMIT
    /\ TokOff /\ ScanIdle /\ SweepIdle
    /\ now = 0
    /\ upAdded = [a \in AnimalIds |-> 0]
    /\ upRev = [a \in AnimalIds |-> 1]
    /\ hubDown = {} /\ orgDown = {} /\ orgs = {}
    /\ lastScanTime = 0 /\ janitorAt = 0
SpecCleanup == InitCleanup /\ [][CleanNext]_vars

\* The jobs around the feed's handlers at rest.
JobsAtRest ==
    /\ GovNearLimit /\ apiCount[0] = API_DAILY_LIMIT
    /\ TokOff /\ ScanIdle /\ SweepIdle /\ CleanIdle
    /\ upAdded = [a \in AnimalIds |-> 0]
    /\ upRev = [a \in AnimalIds |-> 1]
    /\ hubDown = {} /\ orgDown = {} /\ orgs = {}
    /\ lastScanTime = 0 /\ janitorAt = 0

\* The world around the feed handler at rest, the user's row in place.
FeedWorld == JobsAtRest /\ UserIdle

\* Session creations over any table of records at the hubs' coordinates.
InitAssemble == FeedInit /\ FeedWorld /\ now = 0
SpecAssemble == InitAssemble /\ [][AssembleNext]_vars

\* Sessions over one table, from their creation to their expiry.
InitSession == SessionInit /\ FeedWorld /\ now = 0
SpecSession == InitSession /\ [][SessionNext]_vars

\* Live sessions over one table whose records come and go.
InitStable == SessionInit /\ FeedWorld /\ now = 0
SpecStable == InitStable /\ [][StableNext]_vars

\* Session creations between which animals are marked as seen.
InitMarks == SessionInit /\ FeedWorld /\ now = 0
SpecMarks == InitMarks /\ [][MarksNext]_vars

\* Page requests with page numbers of every kind.
InitPaging == SessionInit /\ FeedWorld /\ now = 0
SpecPaging == InitPaging /\ [][PagingNext]_vars

\* Two requests with one client UUID, their database calls interleaved.
InitUsers == SessionInit /\ JobsAtRest /\ UserInit /\ now = 0
SpecUsers == InitUsers /\ [][UsersNext]_vars

-----------------------------------------------------------------------------
(*                          CLAIMS: CALL GOVERNOR                          *)

\* C1: within one UTC day the number of wrapped upstream calls actually
\* executed never exceeds the configured daily limit, also when calls are
\* issued concurrently.
C1_ExecutedWithinLimit ==
    \A d \in Days : executed[d] <= API_DAILY_LIMIT

\* C2: a call that finds its day's counter at or above the limit fails with
\* BudgetExceeded, does not invoke the wrapped request function and leaves
\* the counter (and its expiry) unchanged.
C2_BreakerOpenNoCall ==
    [][\A c \in Callers :
          (gPc[c] = "get" /\ gPc'[c] # "get" /\ apiCount[dailyKey[c]] >= API_DAILY_LIMIT)
          => /\ gResult'[c] = "BudgetExceeded"
             /\ gPc'[c] = "idle"
             /\ executed' = executed
             /\ apiCount' = apiCount
             /\ apiTtl' = apiTtl]_vars

\* C2 witness: a caller was refused at the limit while the day's executed
\* calls equal the limit.
C2_Witness ==
    \E c \in Callers :
        /\ gResult[c] = "BudgetExceeded"
        /\ gPc[c] = "idle"
        /\ apiCount[dailyKey[c]] = API_DAILY_LIMIT
        /\ executed[dailyKey[c]] = API_DAILY_LIMIT

\* A caller's read of the counter is answered.
GovChecked(c) == gPc[c] = "get" /\ gPc'[c] # "get"

\* C16: with callers that come one after the other and requests that are
\* answered, a guarded call is let through exactly while fewer than L calls
\* have been made on its UTC day: the first L calls of the day succeed, every
\* further call of that day fails with BudgetExceeded, and a call of a later
\* day is let through again, the exhausted day's counter notwithstanding.
C16_FirstLCallsThenRefused ==
    [][\A c \in Callers :
          GovChecked(c) =>
              IF executed[dailyKey[c]] < API_DAILY_LIMIT
              THEN gPc'[c] = "call" /\ executed'[dailyKey[c]] = executed[dailyKey[c]] + 1
              ELSE gResult'[c] = "BudgetExceeded" /\ executed' = executed]_vars

\* One caller was refused on the day whose L calls are used up and another
\* call, made the day after, has succeeded.
C16_Witness ==
    \E c, k \in Callers :
        /\ today = 1
        /\ executed[0] = API_DAILY_LIMIT
        /\ gResult[c] = "BudgetExceeded" /\ dailyKey[c] = 0
        /\ gResult[k] = "ok" /\ dailyKey[k] = 1
        /\ executed[1] = 1

-----------------------------------------------------------------------------
(*                          CLAIMS: TOKEN MANAGER                          *)

AllReturnedToken == \A c \in Callers : tPc[c] = "done" /\ tResult[c] > 0

\* C3: from an empty cache and a free lock, when K concurrent callers have
\* all returned a token, exactly one credential exchange was performed and
\* all of them returned the same token.
C3_OneExchangeOneToken ==
    AllReturnedToken =>
        /\ exchanges = 1
        /\ \A c, d \in Callers : tResult[c] = tResult[d]

\* C4: at every moment at most one caller is performing a credential
\* exchange, also when the holder's exchange outlasts the lock's expiry.
C4_OneExchangeInFlight ==
    Cardinality({c \in Callers : tPc[c] = "exchange"}) <= 1

-----------------------------------------------------------------------------
(*                      CLAIMS: DISCOVERY AND QUICK-SCAN                   *)

\* C5: every video-eligible listing added upstream after the stored scan
\* timestamp has been upserted by a Quick-Scan run by the time the stored
\* timestamp has moved to or past the listing's added-time, also when a hub
\* failed, a cap was reached or the budget ran out in a run.
C5_UpsertedBeforeTimestampPasses ==
    \A a \in AnimalIds :
        (PlayableQuick(a) /\ upAdded[a] > InitScanTime /\ lastScanTime >= upAdded[a])
        => a \in qsUpserted

NoDuplicateIds == Cardinality(rows) = Cardinality(Ids(rows))

\* C6: while the same job runs again, and after it has run again, over an
\* upstream that did not change since the first of the two runs started, the
\* stored ids are those the first run left, each stored once.
C6_RerunAddsNothing ==
    (repeated /\ ~upChanged) => (Ids(rows) = firstIds /\ NoDuplicateIds)

\* C6 witness: Discovery has run twice over an unchanged upstream and the
\* first run had stored animals that the second run met again.
C6_Witness ==
    /\ job = "none"
    /\ repeated
    /\ ~upChanged
    /\ firstKind = "discovery"
    /\ firstIds # {}

\* Quick-Scan has run twice over an unchanged upstream after storing animals.
C6_WitnessQuick ==
    /\ job = "none"
    /\ repeated
    /\ ~upChanged
    /\ firstKind = "quickscan"
    /\ firstIds # {}
    /\ qsUpserted # {}

-----------------------------------------------------------------------------
(*                     CLAIMS: REVALIDATION AND PRUNING                    *)

\* The steps that end a targeted revalidation of records: the commit of the
\* hourly refresh's batch, and the deep refresh's handling of one at-risk id.
RefCommitStep == rPc = "commit" /\ rPc' # "commit"
DeepApplyStep == dPc = "apply" /\ dPc' # "apply"

\* C7: in a targeted revalidation pass a record is deleted if and only if
\* its detail fetch returned 404, and a record whose fetch failed with
\* another error (transport error, BudgetExceeded) is left as it was.
C7_DeletedIffNotFound ==
    [][/\ RefCommitStep =>
            \A a \in Range(animalsToAudit) \cap Ids(rows) :
                /\ (a \notin Ids(rows')) <=> (results[a] = "404")
                /\ results[a] \in {"error", "budget"} => RowOf(rows, a) \in rows'
       /\ DeepApplyStep =>
            \A a \in {Head(atRiskAnimals)} \cap Ids(rows) :
                /\ (a \notin Ids(rows')) <=> (dOutcome = "404")
                /\ dOutcome = "error" => RowOf(rows, a) \in rows']_vars

\* C8: when the revalidation fetch of an at-risk record succeeds, the pass
\* keeps the record, sets its fields to the fetched body and its lastSeenAt
\* to the time of the pass, so that it is no longer at risk.
C8_RevalidatedRecordRefreshed ==
    [][/\ RefCommitStep =>
            \A a \in Range(animalsToAudit) \cap Ids(rows) :
                results[a] = "ok" =>
                    /\ a \in Ids(rows')
                    /\ RowOf(rows', a).rev = animalData[a]
                    /\ RowOf(rows', a).lastSeenAt = now
                    /\ RowOf(rows', a).lastSeenAt >= now - Hours(23)
       /\ DeepApplyStep =>
            \A a \in {Head(atRiskAnimals)} \cap Ids(rows) :
                dOutcome = "ok" =>
                    /\ a \in Ids(rows')
                    /\ RowOf(rows', a).rev = dBody
                    /\ RowOf(rows', a).lastSeenAt = now
                    /\ RowOf(rows', a).lastSeenAt >= now - Hours(23)]_vars

\* The staleness thresholds of the Janitor and of the deep refresh's prune.
JanitorThreshold == Hours(24)
PruneThreshold == Hours(25)

JanitorStep == janitorAt' # janitorAt
DeepPruneStep == dPc = "prune" /\ dPc' # "prune"

\* What a prune with the given cutoff leaves: no row last seen before the
\* cutoff, and every row last seen at or after it.
PrunedAt(cutoff) ==
    /\ \A r \in rows' : r.lastSeenAt >= cutoff
    /\ \A r \in rows : r.lastSeenAt >= cutoff => r \in rows'

-----------------------------------------------------------------------------
(*                             CLAIMS: CLEANUP                             *)

\* The breed composition of a record with case and key order set aside: the
\* set of its lower-cased (key, value) pairs; a null column has none and is
\* told apart from every object.
Composition(breeds) ==
    [absent |-> breeds.isNull,
     pairs |-> {<<toLowerCase(breeds.entries[i][1]), toLowerCase(breeds.entries[i][2])>> :
                  i \in 1..Len(breeds.entries)}]

\* Two records of one group: the same name, the same type, the same composition.
SameGroup(a, b) ==
    /\ profile[a].name = profile[b].name
    /\ profile[a].type = profile[b].type
    /\ Composition(profile[a].breeds) = Composition(profile[b].breeds)

\* C11: after a completed Cleanup run a record that was stored when the run
\* started is still stored exactly if no record of its group (same name, same
\* type, same breed composition up to case and key order) had a lower id:
\* the lowest id of every group remains, the other members are deleted, and
\* a record that is alone in its group is not deleted.
C11_LowestIdOfGroupRemains ==
    cPc = "done" =>
        \A r \in preRows :
            (r \in rows) <=> ~(\E q \in preRows : q.id < r.id /\ SameGroup(q.id, r.id))

\* A completed run over a table where records 1 and 2 form a group while
\* writing their breeds with different case and key order, record 2 has been
\* deleted and record 3, of no group, is kept.
C11_Witness ==
    /\ cPc = "done"
    /\ SameGroup(1, 2)
    /\ profile[1].breeds # profile[2].breeds
    /\ ~SameGroup(1, 3)
    /\ Ids(rows) = {1, 3}
    /\ Ids(preRows) = {1, 2, 3}

-----------------------------------------------------------------------------
(*                     CLAIMS: FEED AND SESSION CACHE                      *)

\* The ids L[(p-1)*s .. p*s) of a list, written out index by index.
IdsOfPage(L, p, s) ==
    LET first == (p - 1) * s
        k == IF Len(L) - first >= s THEN s
             ELSE IF Len(L) - first > 0 THEN Len(L) - first ELSE 0
    IN  [i \in 1..k |-> L[first + i]]

\* ceil(n / s): the least number of pages of s ids that hold n ids.
PagesFor(n, s) == CHOOSE k \in 0..n : k * s >= n /\ (k = 0 \/ (k - 1) * s < n)

\* One list is another with some elements left out, the order kept.
StoredPart(L, stored) == SelectSeq(L, LAMBDA id : id \in stored)

RECURSIVE ConcatPages(_, _, _)
ConcatPages(L, p, s) ==
    IF p = 0 THEN <<>> ELSE ConcatPages(L, p - 1, s) \o Slice(L, p, s)

\* A page request has been answered from a live session.
PageServed == resp.kind = "page" /\ resp.status = 200
PageServedNow == resp' # resp /\ resp'.kind = "page" /\ resp'.status = 200

\* C12 (as stated): a page request on a live session with list L returns
\* exactly the ids L[(p-1)*s .. p*s) in list order, and totalPages is
\* ceil(|L|/s).
C12_PageIsSlice ==
    PageServed =>
        /\ resp.animals = IdsOfPage(sessionList[resp.sessionId], resp.page, PAGE_SIZE)
        /\ resp.totalPages = PagesFor(Len(sessionList[resp.sessionId]), PAGE_SIZE)

\* C12 (amended): a page request on a live session with list L returns, in
\* list order, exactly those ids of L[(p-1)*s .. p*s) whose records are
\* still stored when the page is read; totalPages is ceil(|L|/s), and the
\* slices of pages 1..ceil(|L|/s) concatenated are L.
C12_PageIsStoredPartOfSlice ==
    [][PageServedNow =>
         LET L == sessionList[resp'.sessionId]
         IN  /\ resp'.animals = StoredPart(IdsOfPage(L, resp'.page, PAGE_SIZE), Ids(rows'))
             /\ resp'.totalPages = PagesFor(Len(L), PAGE_SIZE)
             /\ ConcatPages(L, PagesFor(Len(L), PAGE_SIZE), PAGE_SIZE) = L]_vars

\* Page 1 of a session of three ids has been read after the record of its
\* second id was deleted: the page holds the first id alone.
C12_Witness ==
    /\ PageServed
    /\ resp.page = 1
    /\ Len(sessionList[resp.sessionId]) = 3
    /\ resp.totalPages = 2
    /\ resp.animals = <<sessionList[resp.sessionId][1]>>
    /\ sessionList[resp.sessionId][2] \notin Ids(rows)

\* C13: a page request for a session whose time to live has passed since
\* its creation, or for a session id that was never stored, is answered
\* with SessionExpired (404), neither with a page nor with a server error,
\* whatever was read before.
C13_ExpiredIsSessionExpired ==
    (/\ resp.kind = "page"
     /\ \/ sessionSetAt[resp.sessionId] < 0
        \/ resp.at >= sessionSetAt[resp.sessionId] + Hours(SESSION_TTL_HOURS))
    => resp.status = 404 /\ resp.animals = <<>>

\* A session that was created and stored has been asked for a page two
\* hours after its creation and the answer is SessionExpired.
C13_Witness ==
    /\ resp.kind = "page"
    /\ sessionSetAt[resp.sessionId] >= 0
    /\ resp.at = sessionSetAt[resp.sessionId] + Hours(SESSION_TTL_HOURS)
    /\ resp.status = 404

\* A session id that was never stored is answered with SessionExpired.
C13_WitnessNeverStored ==
    /\ resp.kind = "page"
    /\ sessionSetAt[resp.sessionId] < 0
    /\ resp.status = 404

-----------------------------------------------------------------------------
(*                         CLAIMS: PLAYABLE VIDEO                          *)

\* C15: in every reachable state every stored record has a first video
\* whose src URL exists and is not on a blocked host (youtube, vimeo,
\* facebook), whichever job stored it.
C15_StoredVideoPlayable == \A r \in rows : VideoOf(r.id) = "ok"

-----------------------------------------------------------------------------
(*                      CLAIMS: GOVERNED UPSTREAM CALLS                    *)

\* A job has received the answer of an upstream detail call.
DetailAnswered ==
    \/ dPc = "fetch" /\ dPc' = "apply" /\ dOutcome' = "ok"
    \/ rPc = "fetch" /\ rPc' = "commit" /\ \E a \in AnimalIds : results'[a] = "ok"

\* C17: every call to the upstream listings provider is issued through the
\* call governor: a step in which a job receives the provider's answer has
\* been counted in the day's budget.
C17_UpstreamCallsCounted ==
    [][DetailAnswered => apiCount'[today] > apiCount[today]]_vars

-----------------------------------------------------------------------------
(*                         CLAIMS: FEED ASSEMBLY                           *)

\* A session has been assembled: tier 1 of the latest assembly is known.
Assembled == nextSession > 1

\* The records tier 1 may draw from: stored, not excluded and less than
\* 30 miles (48.2802 km) from the origin.
HyperLocalCandidates ==
    {a \in Ids(rows) : a \notin seenVideoIds /\ Distance(a) * 100000 < 4828020}

\* C14: the hyper-local tier is in non-decreasing order of distance from the
\* origin, holds only non-excluded records within the hyper-local radius,
\* and holds the N closest of them: no such record strictly closer than a
\* selected one is left out.
C14_HyperLocalClosestFirst ==
    Assembled =>
        /\ \A i, j \in 1..Len(hyperLocalIds) :
               i < j => /\ Distance(hyperLocalIds[i]) <= Distance(hyperLocalIds[j])
                        /\ hyperLocalIds[i] # hyperLocalIds[j]
        /\ Range(hyperLocalIds) \subseteq HyperLocalCandidates
        /\ Len(hyperLocalIds) = IF Cardinality(HyperLocalCandidates) < HyperLocalLimit
                                 THEN Cardinality(HyperLocalCandidates)
                                 ELSE HyperLocalLimit
        /\ \A a \in HyperLocalCandidates \ Range(hyperLocalIds) :
               \A b \in Range(hyperLocalIds) : Distance(a) >= Distance(b)

\* Three records at three distances within the radius: the tier holds the
\* two closest, the closer first, and leaves the farthest out.
C14_Witness ==
    /\ Assembled
    /\ Len(hyperLocalIds) = HyperLocalLimit
    /\ Distance(hyperLocalIds[1]) < Distance(hyperLocalIds[2])
    /\ \E a \in HyperLocalCandidates \ Range(hyperLocalIds) :
           Distance(a) > Distance(hyperLocalIds[HyperLocalLimit])

\* C18: a session-creation request whose location cannot be geocoded, the
\* geocoder finding nothing or its call failing, is answered with a
\* well-formed empty result (no animals, totalPages 0) and not with an error.
C18_GeocodeUnavailableEmptyResult ==
    (resp.kind = "create" /\ resp.geo \in {"empty", "fail"})
    => resp.status = 200 /\ resp.animals = <<>> /\ resp.totalPages = 0

\* C19: two assemblies with the same origin and the same excluded ids over
\* the same table return the same hyper-local id sequence, also when
\* records are equally far from the origin.
C19_SameHyperLocalTier ==
    [][(Assembled /\ nextSession' > nextSession /\ rows' = rows)
       => hyperLocalIds' = hyperLocalIds]_vars

-----------------------------------------------------------------------------
(*                        CLAIMS: TOKEN LOCK RELEASE                       *)

\* A caller leaves getValidToken after it took the lock: by any way but the
\* fast path, which returns from the first look at the cache.
LeavesAfterLock(c) == tPc[c] \notin {"start", "done"} /\ tPc'[c] = "done"

\* C20: when a caller that acquired the token lock leaves getValidToken,
\* with a token found under the lock, with a freshly exchanged token or with
\* the error of a failed exchange, the lock key is absent, so the next
\* caller's SET NX succeeds without waiting for the key's expiry.
C20_LockReleasedOnEveryExit ==
    [][\A c \in Callers : LeavesAfterLock(c) => tokLock' = 0]_vars

\* A caller has left with the error of its exchange and another caller has
\* taken the lock after it.
C20_Witness ==
    \E c, k \in Callers :
        /\ c # k
        /\ tPc[c] = "done" /\ tResult[c] = -1
        /\ tokLock = k
        /\ token = 0

-----------------------------------------------------------------------------
(*                        CLAIMS: TOKEN LOCK EXPIRY                        *)

\* C21: every invocation of getValidToken eventually returns a token or
\* fails (unless its own process dies): no caller waits for the lock for
\* ever, also when a holder died without releasing it, because the lock key
\* expires by itself.
C21_EveryCallEnds ==
    \A c \in Callers : <>(tPc[c] \in {"done", "crashed"})

\* A holder died with the lock, the key has expired, and another caller,
\* which had to wait for it, has left with a token.
C21_Witness ==
    \E c, k \in Callers :
        /\ tPc[c] = "crashed"
        /\ tokLock = 0
        /\ tPc[k] = "done" /\ tResult[k] > 0
        /\ exchanges = 1
        /\ token = tResult[k]

\* ---------------------------------------------------------------------------
\* CLAIMS: TOKEN RE-CHECK UNDER THE LOCK
\* ---------------------------------------------------------------------------

\* C22: a caller whose SET NX succeeded while the token key was present
\* (another holder wrote it between the caller's cache miss and its lock
\* acquisition) sends no credential exchange and returns that cached token.
C22_LockedWithTokenReturnsIt ==
    \A c \in Callers :
        cachedAtLock[c] # 0 =>
            /\ tPc[c] # "exchange"
            /\ tPc[c] = "done" => tResult[c] = cachedAtLock[c]

\* ---------------------------------------------------------------------------
\* CLAIMS: THE DAILY COUNTER
\* ---------------------------------------------------------------------------

\* The callers that pass redis.incr for the key of day d in the step.
Incrementing(d) == {c \in Callers : gPc[c] = "incr" /\ gPc'[c] = "expire" /\ dailyKey[c] = d}

\* C23: every guarded call whose request succeeded raises the counter of its
\* day by exactly one, whatever other calls are under way; the counter of a
\* day changes in no other way while that day lasts, and a call returns
\* successfully only after its increment, so the counter is the number of
\* successful calls of the day; the key gets its expiry only from the call
\* whose increment returned 1, and no other call touches the expiry.
C23_CounterCountsSuccesses ==
    [][/\ \A d \in Days :
             IF Incrementing(d) # {}
             THEN /\ apiCount'[d] = apiCount[d] + 1
                  /\ \A c \in Incrementing(d) : newCount'[c] = apiCount'[d]
             ELSE apiCount'[d] = apiCount[d] \/ (d < today /\ apiCount'[d] = 0)
       /\ \A c \in Callers :
             (gResult'[c] = "ok" /\ gResult[c] # "ok") => gPc[c] = "expire"
       /\ \A d \in Days :
             apiTtl'[d] # apiTtl[d] =>
                 \/ \E c \in Callers : /\ gPc[c] = "expire" /\ gPc'[c] = "idle"
                                        /\ dailyKey[c] = d /\ newCount[c] = 1
                 \/ d < today /\ apiCount'[d] = 0]_vars

\* C23 witness: two calls of the same day are between their increment and
\* their return at once; the key was created by the first, the second read 2.
C23_Witness ==
    \E c, k \in Callers :
        /\ gPc[c] = "expire" /\ gPc[k] = "expire"
        /\ dailyKey[c] = dailyKey[k]
        /\ newCount[c] = 1 /\ newCount[k] = 2
        /\ apiCount[dailyKey[c]] = 2

\* ---------------------------------------------------------------------------
\* CLAIMS: THE SCAN TIMESTAMP
\* ---------------------------------------------------------------------------

\* C24: a Quick-Scan run reads the stored scan timestamp once, when it
\* starts, and searches every hub with that value; the stored timestamp
\* changes only in the step that ends a Quick-Scan run after its last hub,
\* so at most once per run and never in a run that ends by an unhandled
\* failure, and the value stored is the run's start time.
C24_TimestampReadOnceWrittenAtEnd ==
    [][/\ (job = "quickscan" /\ job' = "quickscan") =>
             (jAfter' = jAfter /\ startTime' = startTime)
       /\ (job = "none" /\ job' = "quickscan") =>
             (jAfter' = lastScanTime /\ startTime' = now)
       /\ lastScanTime' # lastScanTime =>
             /\ job = "quickscan" /\ job' = "none"
             /\ jPc = "hub" /\ jHub > NumHubs
             /\ lastScanTime' = startTime]_vars

\* C24 witness: after a run whose write was rejected, a later run has gone
\* through its hubs, saved an animal and stored its own start time.
C24_Witness ==
    /\ job = "none"
    /\ runs = MaxRuns
    /\ lastScanTime > InitScanTime + 1
    /\ qsUpserted # {}

\* ---------------------------------------------------------------------------
\* CLAIMS: FAILURES INSIDE A SYNC RUN
\* ---------------------------------------------------------------------------

\* The run is at a guarded call (a hub's search or an organization's detail
\* call) that the call governor refuses.
AtRefusedCall ==
    /\ job # "none"
    /\ LimitReached(apiCount[today])
    /\ (jPc = "hub" /\ jHub <= NumHubs) \/ jPc = "orgs"

\* C25: the step in which a guarded call of a sync run is refused with
\* BudgetExceeded stops the run: afterwards the run is over, or past its
\* last hub, so that no further call is attempted and no further hub is
\* processed.
C25_BudgetExceededStopsRun ==
    [][(AtRefusedCall /\ <<jPc, jHub, jOrgs>>' # <<jPc, jHub, jOrgs>>) =>
           (job' = "none" \/ (jPc' = "hub" /\ jHub' > NumHubs))]_vars

\* ---------------------------------------------------------------------------
\* CLAIMS: RETRIES OF THE HOURLY JOB
\* ---------------------------------------------------------------------------

\* The job's credential exchange is refused by the call governor.
ExchangeRefused == rPc = "token" /\ token = 0 /\ LimitReached(apiCount[today])

\* Detail calls of the batch under way were refused by the call governor.
DetailRefused == rPc = "commit" /\ \E a \in Range(animalsToAudit) : results[a] = "budget"

\* C26: a step of the hourly job in which a guarded call has been refused
\* because the daily limit is reached (the credential exchange at the start
\* of the job, or detail calls of the batch) never makes withRetry run the
\* job again.
C26_BudgetExceededNotRetried ==
    [][(ExchangeRefused \/ DetailRefused) => attempt' # attempt + 1]_vars

\* A step of the run in which the hub's search fails: the governor refuses
\* it, or geocoding, the token or the provider fails for this hub.
HubFails ==
    /\ job # "none" /\ jPc = "hub" /\ jHub <= NumHubs
    /\ jHub' # jHub
    /\ LimitReached(apiCount[today]) \/ jHub \in hubDown

\* C27: a failure at one hub costs that hub only: the step leaves the store
\* as it is and the run goes on with the next hub of the list; a run visits
\* the hubs one by one in list order and ends only after the last; and no
\* step of a run removes a stored record.
C27_HubFailureConfined ==
    [][/\ HubFails =>
             (job' = job /\ jPc' = "hub" /\ jHub' = jHub + 1 /\ rows' = rows /\ orgs' = orgs)
       /\ (job # "none" /\ job' = job /\ jHub' # jHub) => jHub' = jHub + 1
       /\ (job # "none" /\ job' = "none") => (jHub > NumHubs \/ jPc = "return")
       /\ job # "none" => Ids(rows) \subseteq Ids(rows')]_vars

\* C27 witness: a run has ended in which the first hub failed and an animal
\* of the second hub was saved.
C27_Witness ==
    /\ job = "none"
    /\ runs = 1
    /\ upEvents = 0
    /\ hubDown = {1}
    /\ \E r \in rows : HubOf(r.id) = 2

\* ---------------------------------------------------------------------------
\* CLAIMS: THE BATCH TRANSACTION
\* ---------------------------------------------------------------------------

\* The step that ends the job's stay at its commit: the transaction, or the
\* death of the process.
LeavesCommit == rPc = "commit" /\ rPc' # "commit"

PruneRunCompletes == janitorAt' # janitorAt \/ (dPc = "prune" /\ dPc' # "prune")

\* C29: when a Janitor or prune run has completed, every organization in
\* the store is referenced by a stored record, and every organization the
\* run deleted is referenced by none.
C29_OrganizationsSwept ==
    [][PruneRunCompletes =>
          /\ \A o \in orgs' : \E r \in rows' : r.organizationId = o
          /\ \A o \in orgs \ orgs' : \A r \in rows' : r.organizationId # o]_vars

\* ---------------------------------------------------------------------------
\* CLAIMS: STABLE PAGES
\* ---------------------------------------------------------------------------

\* A page request is answered from a live session right after the answer to
\* a request for the same page of the same session.
SamePageAgain ==
    /\ PageServed
    /\ PageServedNow
    /\ resp'.sessionId = resp.sessionId
    /\ resp'.page = resp.page

\* A request is answered in the step.
Answered == resp' # resp

\* C30 (as stated): two page requests for the same page of a live session
\* return the same id sequence, whatever was written or deleted between
\* them, and a page request changes neither the stored id list nor the
\* tiers assembled at creation.
C30_SamePageSameIds ==
    [][/\ SamePageAgain => resp'.animals = resp.animals
       /\ (Answered /\ resp'.kind = "page") =>
             /\ sessionList' = sessionList
             /\ sessionSetAt' = sessionSetAt
             /\ hyperLocalIds' = hyperLocalIds
             /\ nextSession' = nextSession]_vars

\* C30 (amended): two page requests for the same page of a live session
\* return ids of the same slice of the stored list in the same order, each
\* leaving out exactly the ids whose records are not stored when it is
\* answered, so that the ids both return come in the same order; and a page
\* request changes neither the stored id list nor the tiers assembled at
\* creation.
C30_SamePageSameSliceStoredPart ==
    [][/\ SamePageAgain =>
             LET S == IdsOfPage(sessionList[resp.sessionId], resp.page, PAGE_SIZE)
             IN  /\ resp.animals = StoredPart(S, Range(resp.animals))
                 /\ resp'.animals = StoredPart(S, Ids(rows'))
                 /\ StoredPart(resp.animals, Range(resp'.animals))
                      = StoredPart(resp'.animals, Range(resp.animals))
       /\ (Answered /\ resp'.kind = "page") =>
             /\ sessionList' = sessionList
             /\ sessionSetAt' = sessionSetAt
             /\ hyperLocalIds' = hyperLocalIds
             /\ nextSession' = nextSession]_vars

\* C30 witness: page 1 of a session has been read, a record of the page
\* that the answer held has been deleted and a record that it lacked has
\* been stored again, so that the next answer for the page differs.
C30_Witness ==
    /\ PageServed
    /\ resp.page = 1
    /\ \E a \in Range(resp.animals) : a \notin Ids(rows)
    /\ \E b \in Range(IdsOfPage(sessionList[resp.sessionId], 1, PAGE_SIZE)) :
          b \notin Range(resp.animals) /\ b \in Ids(rows)


-----------------------------------------------------------------------------
(*                       CLAIMS: TOKEN LOCK OWNERSHIP                      *)

\* C35: a caller of getValidToken releases only a lock it still holds: when
\* its own key has expired and another caller has created the key anew, the
\* first caller's release on exit leaves the second caller's key in place.
C35_ReleaseOnlyOwnLock ==
    [][\A c \in Callers :
          (tPc[c] = "release" /\ tPc'[c] = "done" /\ tokLock # c)
          => tokLock' = tokLock]_vars


-----------------------------------------------------------------------------
(*                      CLAIMS: A FAILED GUARDED CALL                      *)

\* The wrapped request function of caller c throws in the step.
RequestThrows(c) == gPc[c] = "call" /\ gPc'[c] = "idle"

\* C37: when the wrapped request function of a guarded call throws, the
\* caller gets that failure, and the counter of every day and its expiry
\* are what they were: the failed call is not counted.
C37_FailedCallNotCounted ==
    [][\A c \in Callers :
          RequestThrows(c) => /\ gResult'[c] = "RequestError"
                              /\ apiCount' = apiCount
                              /\ apiTtl' = apiTtl]_vars

\* C37 witness: a call was let through, its request threw, and the day's
\* counter still shows no call.
C37_Witness ==
    \E c \in Callers :
        /\ gResult[c] = "RequestError"
        /\ gPc[c] = "idle"
        /\ executed[today] > 0
        /\ apiCount[today] = 0
        /\ ~apiTtl[today]


-----------------------------------------------------------------------------
(*                   CLAIMS: QUICK-SCAN AFTER DISCOVERY                    *)

\* A Discovery run ends in the step.
DiscoveryCompletes == job = "discovery" /\ job' = "none"

\* A Quick-Scan run that found no stored scan timestamp is under way.
QuickScanWithoutTimestamp == job = "quickscan" /\ jAfter = 0

\* C38: once a Discovery run has completed a scan timestamp is stored, so
\* that the Quick-Scan run that follows finds one and scans the hubs; and a
\* Quick-Scan run that finds none makes no upstream call and writes nothing:
\* no record, no organization and no timestamp.
C38_QuickScanRunsAfterDiscovery ==
    [][/\ DiscoveryCompletes => lastScanTime' # 0
       /\ QuickScanWithoutTimestamp => /\ executed' = executed
                                       /\ apiCount' = apiCount
                                       /\ rows' = rows
                                       /\ orgs' = orgs
                                       /\ lastScanTime' = lastScanTime]_vars


-----------------------------------------------------------------------------
(*                  CLAIMS: THE SCAN TIMESTAMP'S DIRECTION                 *)

\* C36: the stored scan timestamp never moves backwards, whatever the
\* interleaving of the runs that write it, each of which stores its own
\* start time when it finishes.
C36_ScanTimestampNeverBackwards ==
    [][lastScanTime' >= lastScanTime]_vars


-----------------------------------------------------------------------------
(*                      CLAIMS: LASTSEENAT'S DIRECTION                     *)

-----------------------------------------------------------------------------
(*                     CLAIMS: PAGE NUMBERS OUT OF RANGE                   *)

\* The pages of a list of n ids: 1..ceil(n / s).
PagesOf(L, s) == 1..Ceil(Len(L), s)

\* C39: a page request for a live session whose page number is outside the
\* pages of the stored list (zero, negative or beyond the last page) is
\* answered with no item and with the pagination of the list, never with
\* ids of the list.
C39_OutOfRangePageIsEmpty ==
    (PageServed /\ resp.page \notin PagesOf(sessionList[resp.sessionId], PAGE_SIZE))
    => /\ resp.animals = <<>>
       /\ resp.totalPages = Ceil(Len(sessionList[resp.sessionId]), PAGE_SIZE)


-----------------------------------------------------------------------------
(*                       CLAIMS: THE ASSEMBLED LIST                        *)

\* The list stored by the latest assembly.
LatestList == sessionList[nextSession - 1]

\* The positions of the ids of a tier in a list.
PositionsOf(L, tier) == {i \in 1..Len(L) : L[i] \in Range(tier)}

\* C33: the id list an assembly stores holds no id twice and is the
\* hyper-local tier, then the regional tier, then the nationwide tier:
\* every hyper-local id comes before every regional id and every regional
\* id before every nationwide id.
C33_TiersConcatenatedNoDuplicates ==
    Assembled =>
        /\ \A i, j \in 1..Len(LatestList) : LatestList[i] = LatestList[j] => i = j
        /\ LatestList = hyperLocalIds \o regionalIds \o nationwideIds
        /\ \A i \in PositionsOf(LatestList, hyperLocalIds) :
               \A j \in PositionsOf(LatestList, regionalIds) : i < j
        /\ \A i \in PositionsOf(LatestList, regionalIds) :
               \A j \in PositionsOf(LatestList, nationwideIds) : i < j
        /\ \A i \in PositionsOf(LatestList, hyperLocalIds) :
               \A j \in PositionsOf(LatestList, nationwideIds) : i < j

\* C33 witness: an assembly whose three tiers all hold an id.
C33_Witness ==
    /\ Assembled
    /\ hyperLocalIds # <<>>
    /\ regionalIds # <<>>
    /\ nationwideIds # <<>>
    /\ Len(LatestList) = NumRecords


-----------------------------------------------------------------------------
(*                           CLAIMS: SEEN MARKS                            *)

\* A request is answered in the step with a page that holds items.
ItemsServed == resp' # resp /\ resp'.status = 200 /\ resp'.animals # <<>>

\* C31: when the feed handler answers a request of the user with a page
\* that holds items, the first page of a new session or a later page, a
\* SeenVideo row of the user exists for every id of the page once the
\* request has been processed.
C31_ServedPageMarkedSeen ==
    [][ItemsServed => Range(resp'.animals) \subseteq seenVideoIds']_vars


\* A session is stored in the step.
SessionStored == nextSession' > nextSession

\* C32: a session created for the user holds, in none of its three tiers,
\* an id for which a SeenVideo row of the user existed when the session was
\* assembled; and no step removes or changes an existing SeenVideo row.
C32_SeenExcludedAppendOnly ==
    [][/\ SessionStored => Range(sessionList'[nextSession]) \cap seenVideoIds = {}
       /\ seenVideoIds \subseteq seenVideoIds']_vars

\* C40: once two requests that carried the same client UUID have both been
\* answered, table users holds exactly one row with that UUID and both
\* responses are successes.
C40_OneUserRowNoFailure ==
    (\A q \in UserRequests : uPc[q] = "done")
        => /\ userRows = 1
           /\ \A q \in UserRequests : uStatus[q] = 200

=============================================================================
